---- MODULE Spec2Model ----
(***************************************************************************)
(* Model of the RAG service.  The query pipelines: the /ask and /chat     *)
(* handlers of main.py, the services of services.py they drive, and the   *)
(* stand-alone script test_rag_pipeline.py.  The ingestion programs:      *)
(* document_processor.py (chunk_text, process_document,                   *)
(* process_all_documents), generate_embeddings.py and                     *)
(* azure_search_indexer.py.                                               *)
(*                                                                         *)
(* Encoding of Python values                                               *)
(*   str        a sequence of non-empty pieces; a piece is one character   *)
(*              where lengths matter in the query pipelines (questions,   *)
(*              passage contents) and a literal or rendered value          *)
(*              elsewhere; + is \o, len is Len.  The texts of the          *)
(*              ingestion programs are made of whole words and single     *)
(*              spaces, each one piece; there len is CharLen, which       *)
(*              counts the characters of every piece.                     *)
(*   None / x   Optional values are None == <<>> and Some(x) == <<x>>.    *)
(*   dict       a function from keys to values; a missing key is a key    *)
(*              outside DOMAIN.  A JSON null string is JsonNull.           *)
(*   exception  [type |-> ..., msg |-> ...]                                *)
(*                                                                         *)
(* Specifications                                                          *)
(*   Spec, SpecPair   one request, two requests, of the query pipelines    *)
(*   SpecChunk        a call of chunk_text on any text and parameters      *)
(*   SpecDocs         a run of process_all_documents on any directory      *)
(*   SpecIngest       either of the two                                    *)
(*   SpecIndexing     generate_embeddings.py, then azure_search_indexer.py *)
(***************************************************************************)
EXTENDS Integers, Sequences, FiniteSets, TLC

None == <<>>
Some(x) == <<x>>
JsonNull == <<"<null>">>

(* ------------------------------ bounds -------------------------------- *)
\* longest result list the search provider returns
MaxDocs == 3
\* largest measured response time of /chat, in ms
MaxResponseMs == 1
\* most words of a text handed to chunk_text
MaxWords == 5
\* largest window size chunk_text is called with
MaxWindow == 3
\* most files in the documents directory
MaxFiles == 2
\* most chunks of a short input file of the embedding run, and the calls
\* on which the embedding provider's answer varies
MaxChunks == 2
\* tokens of the longest document
ScenarioTokens == 1200

(* ------------------------- program constants -------------------------- *)
MaxQuestionLen == 500
MinResults == 1
MaxResultsLimit == 10
DefaultMaxResults == 3
PreviewLen == 100
RagMaxTokens == 800
ScriptMaxTokens == 500
ScriptTopK == 3
HighRelevanceCount == 2
\* chunk_text: default window size and overlap in tokens, and the length in
\* characters a window must exceed to be kept
DefaultChunkSize == 500
DefaultOverlap == 50
MinChunkChars == 100
\* process_document: shortest cleaned text that is chunked
MinDocumentChars == 200
\* process_chunks_with_embeddings: most chunks embedded, seconds slept
\* between two calls
MaxEmbedChunks == 10
SleepSeconds == 12
\* the dimensions of the embedding field of the index
EmbeddingDim == 1536

(* ------------------------------ strings ------------------------------- *)
Rep(c, n) == [i \in 1..n |-> c]

IsSpace(c) == c = " "

\* str.lstrip() and str.rstrip()
RECURSIVE LStrip(_)
LStrip(s) == IF s # <<>> /\ IsSpace(Head(s)) THEN LStrip(Tail(s)) ELSE s

RECURSIVE RStrip(_)
RStrip(s) ==
  IF s # <<>> /\ IsSpace(s[Len(s)]) THEN RStrip(SubSeq(s, 1, Len(s) - 1)) ELSE s

\* str.strip(): leading and trailing whitespace removed
Strip(s) == RStrip(LStrip(s))

\* s[:n]
Prefix(s, n) == SubSeq(s, 1, IF Len(s) < n THEN Len(s) ELSE n)

\* sep.join(parts[lo..hi]), halving the range
RECURSIVE JoinRange(_, _, _, _)
JoinRange(parts, sep, lo, hi) ==
  IF lo > hi THEN <<>>
  ELSE IF lo = hi THEN parts[lo]
  ELSE JoinRange(parts, sep, lo, (lo + hi) \div 2) \o sep
         \o JoinRange(parts, sep, (lo + hi) \div 2 + 1, hi)

\* sep.join(parts)
Join(parts, sep) == JoinRange(parts, sep, 1, Len(parts))

\* str(v) of a string value inside an f-string: null renders as "None"
Render(v) == IF v = JsonNull THEN <<"None">> ELSE v


(* ----------------------------- exceptions ----------------------------- *)
Exception(type, msg) == [type |-> type, msg |-> msg]

\* dict[key] raises KeyError(key) for a key the dict does not have
KeyError(key) == Exception("KeyError", "'" \o key \o "'")

\* None[:n] raises TypeError
NotSubscriptable == Exception("TypeError", "'NoneType' object is not subscriptable")

\* the first key of keys (in evaluation order) that doc lacks, or None
RECURSIVE MissingKey(_, _)
MissingKey(doc, keys) ==
  IF keys = <<>> THEN None
  ELSE IF Head(keys) \notin DOMAIN doc THEN Some(Head(keys))
  ELSE MissingKey(doc, Tail(keys))

\* the exception raised by evaluating doc[k] for k in keys over docs in order
RECURSIVE LookupError(_, _)
LookupError(docs, keys) ==
  IF docs = <<>> THEN None
  ELSE IF MissingKey(Head(docs), keys) # None
       THEN Some(KeyError(MissingKey(Head(docs), keys)[1]))
  ELSE LookupError(Tail(docs), keys)

\* the exception raised by doc["content"][:n] over docs in order
RECURSIVE PreviewError(_)
PreviewError(docs) ==
  IF docs = <<>> THEN None
  ELSE IF MissingKey(Head(docs), <<"source_file", "chunk_index", "content">>) # None
       THEN Some(KeyError(MissingKey(Head(docs), <<"source_file", "chunk_index", "content">>)[1]))
  ELSE IF Head(docs).content = JsonNull THEN Some(NotSubscriptable)
  ELSE PreviewError(Tail(docs))

(* ------------------------ services.py: OpenAI ------------------------- *)
\* get_embedding with the error swallowed: an empty vector instead of None
get_embedding_swallow(out) ==
  IF out.exc # None
  THEN [ret |-> Some(<<>>), printed |-> << <<"Error generating embedding: ", out.exc[1].msg>> >>]
  ELSE [ret |-> Some(out.data), printed |-> <<>>]

\* get_embedding: out is what client.embeddings.create did, an exception
\* or a response carrying the vector.  ret is the return value, out the
\* lines printed.
get_embedding(out) ==
  IF out.exc # None
  THEN [ret |-> None, printed |-> << <<"Error generating embedding: ", out.exc[1].msg>> >>]
  ELSE [ret |-> Some(out.data), printed |-> <<>>]

\* generate_completion with the error swallowed: "" instead of None
generate_completion_swallow(out) ==
  IF out.exc # None
  THEN [ret |-> Some(<<>>), printed |-> << <<"Error generating completion: ", out.exc[1].msg>> >>]
  ELSE [ret |-> out.content, printed |-> <<>>]

\* generate_completion: out is what client.chat.completions.create did;
\* message.content is Optional.
generate_completion(out) ==
  IF out.exc # None
  THEN [ret |-> None, printed |-> << <<"Error generating completion: ", out.exc[1].msg>> >>]
  ELSE [ret |-> out.content, printed |-> <<>>]

NoContext == <<"No relevant context found in the documentation.">>

ContextEntry(doc) ==
  <<"Source: ", doc.source_file, " (chunk ", ToString(doc.chunk_index), ")\n">>
    \o Render(doc.content)

\* the context without the placeholder branch
RagContext_noplaceholder(context_documents) ==
  Join([i \in 1..Len(context_documents) |-> ContextEntry(context_documents[i])],
       <<"\n\n">>)

\* the context of generate_rag_response (lines 63-75)
RagContext(context_documents) ==
  IF context_documents # <<>>
  THEN Join([i \in 1..Len(context_documents) |-> ContextEntry(context_documents[i])],
            <<"\n\n">>)
  ELSE NoContext

SystemPrompt == <<"You are a helpful Python documentation assistant. ...">>
PromptHead == <<"Context from Python documentation:\n">>
PromptQuestion == <<"\n\nQuestion: ">>
PromptTail == <<"\n\nPlease provide a helpful answer based on the context above and your knowledge of Python.">>

UserPrompt(context, question) ==
  PromptHead \o context \o PromptQuestion \o question \o PromptTail

\* the messages generate_rag_response hands to generate_completion
RagMessages(question, context_documents) ==
  << [role |-> "system", content |-> SystemPrompt],
     [role |-> "user", content |-> UserPrompt(RagContext(context_documents), question)] >>

\* generate_rag_response: the exception building the context raises (a
\* result lacking a field), or the call and its return value
generate_rag_response(question, context_documents, out) ==
  IF LookupError(context_documents, <<"source_file", "chunk_index", "content">>) # None
  THEN [exc |-> LookupError(context_documents, <<"source_file", "chunk_index", "content">>),
        ret |-> None, printed |-> <<>>, called |-> <<>>]
  ELSE [exc |-> None,
        ret |-> generate_completion(out).ret,
        printed |-> << IF context_documents # <<>> THEN <<"Context 1">> ELSE <<"Context 2">>,
                       RagContext(context_documents) >>
                      \o generate_completion(out).printed,
        called |-> << [op |-> "chat.completions.create",
                       messages |-> RagMessages(question, context_documents),
                       max_tokens |-> RagMaxTokens,
                       out |-> out] >>]

(* ------------------------ services.py: search ------------------------- *)
Reverse(l) == [i \in 1..Len(l) |-> l[Len(l) + 1 - i]]

\* vector_search handing the results back last-first
vector_search_reversed(http) ==
  IF http.exc # None
  THEN [ret |-> None, printed |-> << <<"Error searching documents: ", http.exc[1].msg>> >>]
  ELSE IF http.status_code = 200
  THEN [ret |-> Some(IF "value" \in DOMAIN http.json THEN Reverse(http.json.value) ELSE <<>>),
        printed |-> <<>>]
  ELSE [ret |-> None,
        printed |-> << <<"Search error: ", ToString(http.status_code)>>,
                       <<"Response: ">> \o http.text >>]

\* vector_search: http is what requests.post did, an exception (also one
\* of response.json()) or a response with status_code, text and json.
vector_search(http) ==
  IF http.exc # None
  THEN [ret |-> None, printed |-> << <<"Error searching documents: ", http.exc[1].msg>> >>]
  ELSE IF http.status_code = 200
  THEN [ret |-> Some(IF "value" \in DOMAIN http.json THEN http.json.value ELSE <<>>),
        printed |-> <<>>]
  ELSE [ret |-> None,
        printed |-> << <<"Search error: ", ToString(http.status_code)>>,
                       <<"Response: ">> \o http.text >>]

(* --------------------- main.py: models and errors --------------------- *)
HTTPException(status_code, detail) == [status_code |-> status_code, detail |-> detail]

\* question_must_not_be_empty without the strip() in its first test
question_must_not_be_empty_nostrip(v) ==
  IF v = <<>>
  THEN [err |-> Some("Question cannot be empty"), value |-> v]
  ELSE IF Len(Strip(v)) > MaxQuestionLen
  THEN [err |-> Some("Question too long (max 500 characters)"), value |-> v]
  ELSE [err |-> None, value |-> Strip(v)]

\* ChatRequest.question_must_not_be_empty: the ValueError raised, or the
\* value the field takes
question_must_not_be_empty(v) ==
  IF v = <<>> \/ Strip(v) = <<>>
  THEN [err |-> Some("Question cannot be empty"), value |-> v]
  ELSE IF Len(Strip(v)) > MaxQuestionLen
  THEN [err |-> Some("Question too long (max 500 characters)"), value |-> v]
  ELSE [err |-> None, value |-> Strip(v)]

\* ChatRequest.max_results_must_be_valid
max_results_must_be_valid(v) ==
  IF v < MinResults \/ v > MaxResultsLimit
  THEN [err |-> Some("max_results must be between 1 and 10"), value |-> v]
  ELSE [err |-> None, value |-> v]

\* parsing the body of /chat into a ChatRequest: the validators' errors in
\* field order; FastAPI answers a non-empty list with 422 and does not run
\* the handler
ChatRequest(body) ==
  [errors |-> (IF question_must_not_be_empty(body.question).err # None
               THEN <<question_must_not_be_empty(body.question).err[1]>> ELSE <<>>)
              \o
              (IF max_results_must_be_valid(body.max_results).err # None
               THEN <<max_results_must_be_valid(body.max_results).err[1]>> ELSE <<>>),
   question |-> question_must_not_be_empty(body.question).value,
   max_results |-> max_results_must_be_valid(body.max_results).value]

\* parsing the body of /ask into a QueryRequest: two typed fields, no validator
QueryRequest(body) ==
  [errors |-> <<>>, question |-> body.question, max_results |-> body.max_results]

\* the except clauses of ask_question for an exception e that is not an
\* HTTPException
ask_question_except(e) ==
  HTTPException(500, <<"Unexpected error: ", e.msg>>)

\* the except clauses of chat_endpoint for an exception e that is not an
\* HTTPException
chat_endpoint_except(e) ==
  IF e.type = "ValueError"
  THEN HTTPException(400, <<e.msg>>)
  ELSE HTTPException(500, <<"An unexpected error occurred. Please try again.">>)

\* doc["content"][:100] + "..."
Preview(content) == Prefix(content, PreviewLen) \o <<"...">>

\* the sources list of the /ask response
AskSources(search_results) ==
  [i \in 1..Len(search_results) |->
     [source_file |-> search_results[i].source_file,
      chunk_index |-> search_results[i].chunk_index,
      preview |-> Preview(search_results[i].content)]]

\* the sources list of the /chat response; enumerate() counts from 0
ChatSources(search_results) ==
  [i \in 1..Len(search_results) |->
     [source_file |-> search_results[i].source_file,
      chunk_index |-> search_results[i].chunk_index,
      preview |-> Preview(search_results[i].content),
      relevance |-> IF i - 1 < HighRelevanceCount THEN "high" ELSE "medium"]]

(* ------------------------ document_processor.py ----------------------- *)
\* the word of n characters c, one piece
RECURSIVE Word(_, _)
Word(c, n) ==
  IF n = 0 THEN "" ELSE IF n = 1 THEN c ELSE Word(c, n \div 2) \o Word(c, n - n \div 2)

\* len(s) in characters: a piece counts as many characters as it has
RECURSIVE CharLenRange(_, _, _)
CharLenRange(s, lo, hi) ==
  IF lo > hi THEN 0
  ELSE IF lo = hi THEN Len(s[lo])
  ELSE CharLenRange(s, lo, (lo + hi) \div 2) + CharLenRange(s, (lo + hi) \div 2 + 1, hi)

CharLen(s) == CharLenRange(s, 1, Len(s))

\* the words of s[lo..hi], a range that cuts no word: the range is cut at
\* a word boundary, the first after its middle or else the last before it,
\* until it holds one word or no word
RECURSIVE SplitRange(_, _, _)
SplitRange(s, lo, hi) ==
  LET mid == (lo + hi) \div 2
      IsCut(q) == IsSpace(s[q]) \/ IsSpace(s[q + 1])
      after == CHOOSE q \in mid..(hi - 1) : IsCut(q)
      before == CHOOSE q \in lo..(mid - 1) :
                  IsCut(q) /\ \A r \in (q + 1)..(mid - 1) : ~IsCut(r)
  IN IF lo > hi THEN <<>>
     ELSE IF \E q \in mid..(hi - 1) : IsCut(q)
     THEN SplitRange(s, lo, after) \o SplitRange(s, after + 1, hi)
     ELSE IF \E q \in lo..(mid - 1) : IsCut(q)
     THEN SplitRange(s, lo, before) \o SplitRange(s, before + 1, hi)
     ELSE IF IsSpace(s[lo]) THEN <<>> ELSE <<SubSeq(s, lo, hi)>>

\* s.split(): the maximal runs of non-whitespace, in order
Split(s) == SplitRange(s, 1, Len(s))

\* an index of a slice over a sequence of length n: negative indices count
\* from the end, indices beyond an end are clamped
SliceIndex(x, n) ==
  IF x < 0 THEN (IF x + n < 0 THEN 0 ELSE x + n) ELSE IF x > n THEN n ELSE x

\* seq[a:b] taking the element at b as well
Slice_inclusive(seq, a, b) ==
  SubSeq(seq, SliceIndex(a, Len(seq)) + 1,
         IF SliceIndex(b, Len(seq)) < Len(seq) THEN SliceIndex(b, Len(seq)) + 1
         ELSE Len(seq))

\* seq[a:b], indices counted from 0
Slice(seq, a, b) ==
  SubSeq(seq, SliceIndex(a, Len(seq)) + 1, SliceIndex(b, Len(seq)))

\* range(start, stop, step) as a list, or the ValueError of a zero step
Range(start, stop, step) ==
  IF step = 0
  THEN [exc |-> Some(Exception("ValueError", "range() arg 3 must not be zero")),
        ret |-> <<>>]
  ELSE LET span == IF step > 0 THEN stop - start ELSE start - stop
           size == IF step > 0 THEN step ELSE 0 - step
           count == IF span <= 0 THEN 0 ELSE (span + size - 1) \div size
       IN [exc |-> None, ret |-> [k \in 1..count |-> start + (k - 1) * step]]

\* the windows chunk_text slides over words without the overlap
ChunkWindows_nooverlap(words, max_chunk_size, overlap) ==
  LET starts == Range(0, Len(words), max_chunk_size).ret
  IN [k \in 1..Len(starts) |->
        [i |-> starts[k],
         chunk |-> Join(Slice(words, starts[k], starts[k] + max_chunk_size), <<" ">>)]]

\* the windows chunk_text slides over words (lines 48-49): the loop index
\* and the joined text of each
ChunkWindows(words, max_chunk_size, overlap) ==
  LET starts == Range(0, Len(words), max_chunk_size - overlap).ret
  IN [k \in 1..Len(starts) |->
        [i |-> starts[k],
         chunk |-> Join(Slice(words, starts[k], starts[k] + max_chunk_size), <<" ">>)]]

\* the test of line 50 without the minimum length
Kept_nonempty(chunk) == Strip(chunk) # <<>>

\* the test of line 50: the window is kept
Kept(chunk) == Strip(chunk) # <<>> /\ CharLen(Strip(chunk)) > MinChunkChars

\* the windows whose text chunk_text appends, in order
EmittedWindows(text, max_chunk_size, overlap) ==
  SelectSeq(ChunkWindows(Split(text), max_chunk_size, overlap),
            LAMBDA w : Kept(w.chunk))

\* chunk_text (lines 43-53): the list returned, or the exception raised
chunk_text(text, max_chunk_size, overlap) ==
  LET words == Split(text)
      emitted == SelectSeq(ChunkWindows(words, max_chunk_size, overlap),
                           LAMBDA w : Kept(w.chunk))
  IN IF Range(0, Len(words), max_chunk_size - overlap).exc # None
     THEN [exc |-> Range(0, Len(words), max_chunk_size - overlap).exc, ret |-> <<>>]
     ELSE [exc |-> None, ret |-> [k \in 1..Len(emitted) |-> Strip(emitted[k].chunk)]]

\* the pieces of a str as one piece
RECURSIVE Flatten(_)
Flatten(s) == IF s = <<>> THEN "" ELSE Head(s) \o Flatten(Tail(s))

\* s.replace(old, new) for a piece old; file names are made of pieces that
\* hold each ".html" whole
Replace(s, old, new) ==
  JoinRange([k \in 1..Len(s) |-> IF s[k] = old THEN new ELSE <<s[k]>>], <<>>, 1, Len(s))

\* s.endswith(suffix) for a piece suffix
EndsWith(s, suffix) == s # <<>> /\ s[Len(s)] = suffix

\* the dict of lines 78-84 for the chunk numbered i
ChunkData(filename, i, chunk) ==
  [id |-> Flatten(filename \o <<"_chunk_", ToString(i)>>),
   source_file |-> Flatten(filename),
   chunk_index |-> i,
   content |-> chunk,
   content_length |-> CharLen(chunk)]

\* process_document numbering the chunks from 1
process_document_from1(filepath, read) ==
  IF read.exc # None
  THEN [ret |-> <<>>,
        printed |-> << <<"Error processing ", Flatten(filepath), ": ", read.exc[1].msg>> >>]
  ELSE IF CharLen(read.clean_text) < MinDocumentChars
  THEN [ret |-> <<>>,
        printed |-> << <<"  - Skipping ", Flatten(Replace(filepath, ".html", <<>>)),
                         ": content too short">> >>]
  ELSE LET result == chunk_text(read.clean_text, DefaultChunkSize, DefaultOverlap)
       IN IF result.exc # None
          THEN [ret |-> <<>>,
                printed |-> << <<"Error processing ", Flatten(filepath), ": ",
                                 result.exc[1].msg>> >>]
          ELSE [ret |-> [k \in 1..Len(result.ret) |->
                           ChunkData(Replace(filepath, ".html", <<>>), k, result.ret[k])],
                printed |-> <<>>]

\* process_document (lines 56-91) on the file named filepath in the
\* documents directory; read is what opening, reading and cleaning it gave:
\* an exception, or the text clean_python_org_content returned
process_document(filepath, read) ==
  IF read.exc # None
  THEN [ret |-> <<>>,
        printed |-> << <<"Error processing ", Flatten(filepath), ": ", read.exc[1].msg>> >>]
  ELSE IF CharLen(read.clean_text) < MinDocumentChars
  THEN [ret |-> <<>>,
        printed |-> << <<"  - Skipping ", Flatten(Replace(filepath, ".html", <<>>)),
                         ": content too short">> >>]
  ELSE LET result == chunk_text(read.clean_text, DefaultChunkSize, DefaultOverlap)
       IN IF result.exc # None
          THEN [ret |-> <<>>,
                printed |-> << <<"Error processing ", Flatten(filepath), ": ",
                                 result.exc[1].msg>> >>]
          ELSE [ret |-> [k \in 1..Len(result.ret) |->
                           ChunkData(Replace(filepath, ".html", <<>>), k - 1, result.ret[k])],
                printed |-> <<>>]

(* ------------------------ generate_embeddings.py ---------------------- *)
\* generate_embedding (lines 23-32): out is what embeddings.create did
generate_embedding(out) ==
  IF out.exc # None
  THEN [ret |-> None, printed |-> << <<"Error generating embedding: ", out.exc[1].msg>> >>]
  ELSE [ret |-> Some(out.data), printed |-> <<>>]

\* the test "if embedding" of line 60: neither None nor an empty list
Truthy(embedding) == embedding # None /\ embedding[1] # <<>>

\* the dict chunk after chunk["embedding"] = embedding
WithEmbedding(chunk, embedding) == ("embedding" :> embedding) @@ chunk

\* chunks[:n]
Truncate(chunks, n) == SubSeq(chunks, 1, IF Len(chunks) < n THEN Len(chunks) ELSE n)

\* how many chunks carry an embedding (lines 83-85)
SuccessfulEmbeddings(chunks) ==
  Len(SelectSeq(chunks, LAMBDA c : "embedding" \in DOMAIN c))

(* ----------------------- azure_search_indexer.py ---------------------- *)
\* the document built from a chunk at lines 123-131
UploadDocument(chunk) ==
  ("@search.action" :> "upload") @@
  [id |-> chunk.id, source_file |-> chunk.source_file, chunk_index |-> chunk.chunk_index,
   content |-> chunk.content, content_length |-> chunk.content_length,
   embedding |-> chunk.embedding]

\* the batch of lines 120-132: one document per chunk with an embedding
PrepareDocuments(chunks) ==
  LET with == SelectSeq(chunks, LAMBDA c : "embedding" \in DOMAIN c)
  IN [k \in 1..Len(with) |-> UploadDocument(with[k])]

\* the count of line 140
SuccessfulUploads(results) ==
  Len(SelectSeq(results, LAMBDA r : r.status))

\* upload_documents from line 134 on, for the batch documents: http is what
\* requests.post did, an exception or a response with status_code, text
\* and json
upload_documents(documents, http) ==
  IF http.exc # None
  THEN [ret |-> FALSE,
        printed |-> << <<"Error uploading documents: ", http.exc[1].msg>> >>]
  ELSE IF http.status_code = 200
  THEN IF "value" \in DOMAIN http.json
       THEN [ret |-> TRUE,
             printed |-> << <<"Successfully uploaded ",
                              ToString(SuccessfulUploads(http.json.value)), "/",
                              ToString(Len(documents)), " documents">> >>]
       ELSE [ret |-> FALSE, printed |-> << <<"Error uploading documents: ", "'value'">> >>]
  ELSE [ret |-> FALSE,
        printed |-> << <<"Error uploading documents: ", ToString(http.status_code)>>,
                       <<"Response: ">> \o http.text >>]

\* delete_index_if_exists (lines 10-29): the line it prints
delete_index_if_exists(http) ==
  IF http.exc # None THEN <<"Error deleting index: ", http.exc[1].msg>>
  ELSE IF http.status_code = 204 THEN <<"Existing index deleted successfully">>
  ELSE IF http.status_code = 404 THEN <<"No existing index to delete">>
  ELSE <<"Error deleting index: ", ToString(http.status_code)>>

\* create_search_index (lines 91-102)
create_search_index(http) ==
  IF http.exc # None
  THEN [ret |-> FALSE, printed |-> << <<"Error creating index: ", http.exc[1].msg>> >>]
  ELSE IF http.status_code = 201
  THEN [ret |-> TRUE, printed |-> << <<"Index 'python-docs-index' created successfully">> >>]
  ELSE [ret |-> FALSE,
        printed |-> << <<"Error creating index: ", ToString(http.status_code)>>,
                       <<"Response: ">> \o http.text >>]

\* AzureOpenAIService.__init__ (services.py, lines 18-28): the deployment
\* names are what the environment holds under these names
AzureOpenAIService ==
  [embedding_deployment |-> "AZURE_OPENAI_EMBEDDING_DEPLOYMENT_NAME",
   chat_deployment |-> "AZURE_OPENAI_DEPLOYMENT_NAME"]

\* AzureSearchService.__init__ (services.py, lines 101-110)
AzureSearchService ==
  [endpoint |-> "AZURE_SEARCH_ENDPOINT", index_name |-> "python-docs-index"]

(* ------------------------------- state -------------------------------- *)
VARIABLES
  pc,                 \* per request: idle, received, embed, search, generate, done
  endpoint,           \* per request: the entry point, "ask", "chat" or "script"
  request,            \* per request: the body submitted (question, max_results)
  question,           \* per request: the question the handler works with
  question_embedding, \* per request: Optional vector
  search_results,     \* per request: Optional result list (the script: Optional dict)
  answer,             \* per request: Optional str
  response,           \* per request: Optional outcome handed to the caller
  calls,              \* per request: the provider calls made, in order
  printed,            \* per request: the lines written to stdout
  raised              \* per request: the exceptions that reached the handler

\* the module-level objects of main.py, which every request uses
VARIABLES
  openai_service,     \* the AzureOpenAIService made at line 60
  search_service      \* the AzureSearchService made at line 61

\* a call of chunk_text
VARIABLES
  text,               \* the text to chunk
  max_chunk_size,     \* the window size, in tokens
  overlap,            \* the tokens successive windows share
  chunks,             \* Optional list: the chunks returned
  chunk_raised        \* Optional exception: what the call raised

\* a run of process_all_documents
VARIABLES
  docs_dir,           \* Optional directory: file name -> what reading and cleaning gives
  docs_pc,            \* idle, start, loop, returned
  html_files,         \* the .html files listed, in the order of os.listdir
  file_index,         \* how many of html_files have been processed
  all_chunks,         \* the passages collected
  processed,          \* per file processed: its name and the passages it gave
  docs_printed        \* the lines process_document wrote to stdout

\* a run of generate_embeddings.py
VARIABLES
  input_file,         \* Optional list: the content of python_docs_processed.json
  emb_pc,             \* start, embed, sleep, returned, saved, crashed
  emb_chunks,         \* the list chunks of process_chunks_with_embeddings
  emb_i,              \* the index i of its loop
  emb_calls,          \* the calls of embeddings.create: the input and what it gave
  emb_slept,          \* the sleeps made, in seconds
  emb_printed,        \* the lines written to stdout
  chunks_file         \* Optional list: the content of chunks_with_embeddings.json

\* a run of azure_search_indexer.py
VARIABLES
  idx_pc,             \* start, upload, done, crashed
  documents,          \* Optional list: the batch upload_documents posted
  upload_http,        \* Optional: what the post of the batch gave
  upload_returned,    \* Optional bool: what upload_documents returned
  idx_printed         \* the lines written to stdout

queryVars == <<pc, endpoint, request, question, question_embedding, search_results,
               answer, response, calls, printed, raised>>

serviceVars == <<openai_service, search_service>>

chunkVars == <<text, max_chunk_size, overlap, chunks, chunk_raised>>

docsVars == <<docs_dir, docs_pc, html_files, file_index, all_chunks, processed,
             docs_printed>>

embedVars == <<input_file, emb_pc, emb_chunks, emb_i, emb_calls, emb_slept, emb_printed,
              chunks_file>>

indexVars == <<idx_pc, documents, upload_http, upload_returned, idx_printed>>

\* the state of the ingestion programs, which no request touches
ingestVars == <<chunkVars, docsVars, embedVars, indexVars>>

vars == <<queryVars, serviceVars, ingestVars>>

Slots == {1, 2}

(* ---------------------------- environment ----------------------------- *)
Endpoints == {"ask", "chat", "script"}

Q_EMPTY == <<>>
Q_BLANK == <<" ", " ">>
Q_SHORT == <<" ", "h", "i", " ">>
Q_MAX == Rep("x", MaxQuestionLen)
Q_PADDED == <<" ">> \o Rep("x", MaxQuestionLen) \o <<" ">>
Q_OVER == Rep("x", MaxQuestionLen + 1)

Questions == {Q_EMPTY, Q_BLANK, Q_SHORT, Q_MAX, Q_PADDED, Q_OVER}

MaxResultsInputs ==
  {MinResults - 1, MinResults, DefaultMaxResults, MaxResultsLimit, MaxResultsLimit + 1}

ErrMsgs == {"rate limit exceeded", "connection reset"}

Vectors == {<<1, 2>>, <<3, 4>>}

EmbedOutcomes ==
  {[exc |-> Some(Exception("APIError", m)), data |-> <<>>] : m \in ErrMsgs}
    \cup {[exc |-> None, data |-> v] : v \in Vectors}

DocIntro ==
  [id |-> "intro_chunk_0", source_file |-> "intro", chunk_index |-> 0,
   content |-> <<"a", "b", "c">>]
DocErrors ==
  [id |-> "errors_chunk_1", source_file |-> "errors", chunk_index |-> 1,
   content |-> Rep("e", PreviewLen + 1)]
DocTypes ==
  [id |-> "types_chunk_0", source_file |-> "types", chunk_index |-> 0,
   content |-> Rep("t", PreviewLen)]
DocNull ==
  [id |-> "null_chunk_2", source_file |-> "null", chunk_index |-> 2,
   content |-> JsonNull]
DocNoContent ==
  [id |-> "nocontent_chunk_3", source_file |-> "nocontent", chunk_index |-> 3]
DocNoSource ==
  [id |-> "nosource_chunk_4", chunk_index |-> 4, content |-> <<"d">>]

DocSet == {DocIntro, DocErrors, DocTypes, DocNull, DocNoContent, DocNoSource}

\* the result lists of at most n documents of D, no document twice
ResultListsOf(D, n) ==
  UNION {{l \in [1..k -> D] : \A i, j \in 1..k : l[i] = l[j] => i = j} : k \in 0..n}

ResultLists == ResultListsOf(DocSet, MaxDocs)

\* the JSON body of a 200 answer of the search provider
SearchJsons(lists) ==
  {("@odata.count" :> Len(l)) @@ [value |-> l] : l \in lists}
    \cup {("@odata.count" :> 0)}

SearchOutcomesOf(lists) ==
  {[exc |-> Some(Exception("ConnectionError", m)), status_code |-> 0,
    text |-> <<>>, json |-> ("@odata.count" :> 0)] : m \in ErrMsgs}
    \cup {[exc |-> None, status_code |-> 503, text |-> <<"unavailable">>,
           json |-> ("@odata.count" :> 0)]}
    \cup {[exc |-> None, status_code |-> 200, text |-> <<>>, json |-> j] :
            j \in SearchJsons(lists)}

SearchOutcomes == SearchOutcomesOf(ResultLists)

Answers == {<<"Use try and except.">>}

GenOutcomes ==
  {[exc |-> Some(Exception("APIError", m)), content |-> None] : m \in ErrMsgs}
    \cup {[exc |-> None, content |-> None]}
    \cup {[exc |-> None, content |-> Some(a)] : a \in Answers}

ResponseTimes == 0..MaxResponseMs

(* ------------------------------ helpers ------------------------------- *)
Set(f, s, v) == [f EXCEPT ![s] = v]
Add(f, s, items) == [f EXCEPT ![s] = @ \o items]

\* no request has been submitted
QueryIdle ==
  /\ pc = [s \in Slots |-> "idle"]
  /\ endpoint = [s \in Slots |-> "none"]
  /\ request = [s \in Slots |-> [question |-> <<>>, max_results |-> DefaultMaxResults]]
  /\ question = [s \in Slots |-> <<>>]
  /\ question_embedding = [s \in Slots |-> None]
  /\ search_results = [s \in Slots |-> None]
  /\ answer = [s \in Slots |-> None]
  /\ response = [s \in Slots |-> None]
  /\ calls = [s \in Slots |-> <<>>]
  /\ printed = [s \in Slots |-> <<>>]
  /\ raised = [s \in Slots |-> <<>>]
  /\ openai_service = AzureOpenAIService
  /\ search_service = AzureSearchService

\* chunk_text is about to be called on text
ChunkCall(t, m, o) ==
  /\ text = t /\ max_chunk_size = m /\ overlap = o
  /\ chunks = None /\ chunk_raised = None

\* process_all_documents is about to run on directory d
DocsRun(d) ==
  /\ docs_dir = d /\ docs_pc = "start"
  /\ html_files = <<>> /\ file_index = 0
  /\ all_chunks = <<>> /\ processed = <<>> /\ docs_printed = <<>>

\* generate_embeddings.py and azure_search_indexer.py are about to run, the
\* first on the input file f
IndexingRun(f) ==
  /\ input_file = f /\ emb_pc = "start"
  /\ emb_chunks = <<>> /\ emb_i = 0 /\ emb_calls = <<>> /\ emb_slept = <<>>
  /\ emb_printed = <<>> /\ chunks_file = None
  /\ idx_pc = "start" /\ documents = None /\ upload_http = None
  /\ upload_returned = None /\ idx_printed = <<>>

\* process_all_documents is not run
DocsIdle ==
  /\ docs_dir = None /\ docs_pc = "idle"
  /\ html_files = <<>> /\ file_index = 0
  /\ all_chunks = <<>> /\ processed = <<>> /\ docs_printed = <<>>

Init ==
  /\ QueryIdle
  /\ ChunkCall(<<>>, DefaultChunkSize, DefaultOverlap)
  /\ DocsIdle
  /\ IndexingRun(None)

\* a client posts body to /ask or /chat, or the script is run on a question
Submit(s, ep, q, k) ==
  /\ pc[s] = "idle"
  /\ pc' = Set(pc, s, "received")
  /\ endpoint' = Set(endpoint, s, ep)
  /\ request' = Set(request, s, [question |-> q, max_results |-> k])
  /\ UNCHANGED <<question, question_embedding, search_results, answer, response,
                 calls, printed, raised>>

\* the request ends with outcome r
Finish(s, r) ==
  /\ pc' = Set(pc, s, "done")
  /\ response' = Set(response, s, Some(r))

(* ----------------------- main.py: ask_question ------------------------ *)
\* lines 134-145
ask_question_validate(s) ==
  /\ pc[s] = "received" /\ endpoint[s] = "ask"
  /\ question' = Set(question, s, Strip(QueryRequest(request[s]).question))
  /\ IF Strip(QueryRequest(request[s]).question) = <<>>
     THEN Finish(s, HTTPException(400, <<"Question cannot be empty">>))
     ELSE pc' = Set(pc, s, "embed") /\ UNCHANGED response
  /\ UNCHANGED <<endpoint, request, question_embedding, search_results, answer,
                 calls, printed, raised>>

\* ask_question_embed going on to the search with a zero vector when the
\* embedding failed
ask_question_embed_fallback(s, out) ==
  /\ pc[s] = "embed" /\ endpoint[s] = "ask"
  /\ calls' = Add(calls, s, <<[op |-> "embeddings.create",
                               model |-> openai_service.embedding_deployment,
                               input |-> question[s], out |-> out]>>)
  /\ printed' = Add(printed, s, get_embedding(out).printed)
  /\ question_embedding' =
       Set(question_embedding, s,
           IF get_embedding(out).ret = None THEN Some(<<0, 0>>) ELSE get_embedding(out).ret)
  /\ pc' = Set(pc, s, "search")
  /\ UNCHANGED <<endpoint, request, question, search_results, answer, raised, response>>

\* lines 148-153
ask_question_embed(s, out) ==
  /\ pc[s] = "embed" /\ endpoint[s] = "ask"
  /\ calls' = Add(calls, s, <<[op |-> "embeddings.create",
                               model |-> openai_service.embedding_deployment,
                               input |-> question[s], out |-> out]>>)
  /\ printed' = Add(printed, s, get_embedding(out).printed)
  /\ question_embedding' = Set(question_embedding, s, get_embedding(out).ret)
  /\ IF get_embedding(out).ret = None
     THEN Finish(s, HTTPException(500, <<"Failed to generate question embedding">>))
     ELSE pc' = Set(pc, s, "search") /\ UNCHANGED response
  /\ UNCHANGED <<endpoint, request, question, search_results, answer, raised>>

\* ask_question_search with the test "if not search_results"
ask_question_search_falsy(s, http) ==
  /\ pc[s] = "search" /\ endpoint[s] = "ask"
  /\ calls' = Add(calls, s, <<[op |-> "docs/search",
                               index |-> search_service.index_name,
                               vector |-> question_embedding[s][1],
                               top_k |-> QueryRequest(request[s]).max_results,
                               out |-> http]>>)
  /\ printed' = Add(printed, s, vector_search(http).printed)
  /\ search_results' = Set(search_results, s, vector_search(http).ret)
  /\ IF vector_search(http).ret = None \/ vector_search(http).ret = Some(<<>>)
     THEN Finish(s, HTTPException(500, <<"Search operation failed">>))
     ELSE pc' = Set(pc, s, "generate") /\ UNCHANGED response
  /\ UNCHANGED <<endpoint, request, question, question_embedding, answer, raised>>

\* lines 155-160
ask_question_search(s, http) ==
  /\ pc[s] = "search" /\ endpoint[s] = "ask"
  /\ calls' = Add(calls, s, <<[op |-> "docs/search",
                               index |-> search_service.index_name,
                               vector |-> question_embedding[s][1],
                               top_k |-> QueryRequest(request[s]).max_results,
                               out |-> http]>>)
  /\ printed' = Add(printed, s, vector_search(http).printed)
  /\ search_results' = Set(search_results, s, vector_search(http).ret)
  /\ IF vector_search(http).ret = None
     THEN Finish(s, HTTPException(500, <<"Search operation failed">>))
     ELSE pc' = Set(pc, s, "generate") /\ UNCHANGED response
  /\ UNCHANGED <<endpoint, request, question, question_embedding, answer, raised>>

\* the dict ask_question returns (lines 168-180)
AskResponse(q, a, results) ==
  [question |-> q, answer |-> a, sources_used |-> Len(results),
   sources |-> AskSources(results)]

\* ask_question_generate working on the result list the search service
\* returned last, to whichever request
ask_question_generate_shared(s, out) ==
  LET others == {t \in Slots \ {s} : endpoint[t] \in {"ask", "chat"} /\ search_results[t] # None}
      last == IF others # {} THEN search_results[CHOOSE t \in others : TRUE]
              ELSE search_results[s]
      rag == generate_rag_response(question[s], last[1], out)
      bad == PreviewError(last[1])
  IN
  /\ pc[s] = "generate" /\ endpoint[s] = "ask"
  /\ calls' = Add(calls, s, [k \in DOMAIN rag.called |->
                                rag.called[k] @@ ("model" :> openai_service.chat_deployment)])
  /\ printed' = Add(printed, s, rag.printed)
  /\ IF rag.exc # None
     THEN /\ raised' = Add(raised, s, rag.exc)
          /\ Finish(s, ask_question_except(rag.exc[1]))
          /\ UNCHANGED answer
     ELSE /\ answer' = Set(answer, s, rag.ret)
          /\ IF rag.ret = None
             THEN /\ Finish(s, HTTPException(500, <<"Failed to generate response">>))
                  /\ UNCHANGED raised
             ELSE IF bad # None
             THEN /\ raised' = Add(raised, s, bad)
                  /\ Finish(s, ask_question_except(bad[1]))
             ELSE /\ Finish(s, AskResponse(question[s], rag.ret[1], last[1]))
                  /\ UNCHANGED raised
  /\ UNCHANGED <<endpoint, request, question, question_embedding, search_results>>

\* lines 162-185
ask_question_generate(s, out) ==
  LET rag == generate_rag_response(question[s], search_results[s][1], out)
      bad == PreviewError(search_results[s][1])
  IN
  /\ pc[s] = "generate" /\ endpoint[s] = "ask"
  /\ calls' = Add(calls, s, [k \in DOMAIN rag.called |->
                                rag.called[k] @@ ("model" :> openai_service.chat_deployment)])
  /\ printed' = Add(printed, s, rag.printed)
  /\ IF rag.exc # None
     THEN /\ raised' = Add(raised, s, rag.exc)
          /\ Finish(s, ask_question_except(rag.exc[1]))
          /\ UNCHANGED answer
     ELSE /\ answer' = Set(answer, s, rag.ret)
          /\ IF rag.ret = None
             THEN /\ Finish(s, HTTPException(500, <<"Failed to generate response">>))
                  /\ UNCHANGED raised
             ELSE IF bad # None
             THEN /\ raised' = Add(raised, s, bad)
                  /\ Finish(s, ask_question_except(bad[1]))
             ELSE /\ Finish(s, AskResponse(question[s], rag.ret[1], search_results[s][1]))
                  /\ UNCHANGED raised
  /\ UNCHANGED <<endpoint, request, question, question_embedding, search_results>>

(* ----------------------- main.py: chat_endpoint ----------------------- *)
\* The logger calls of chat_endpoint write to the logging sink only and are
\* not part of the state.
\* the ChatResponse chat_endpoint returns (lines 295-311)
ChatResponse(q, a, results, response_time_ms) ==
  [question |-> q, answer |-> a, sources_used |-> Len(results),
   sources |-> ChatSources(results), response_time_ms |-> response_time_ms,
   status |-> "success"]

\* the body is parsed into ChatRequest (lines 20-36) before the handler runs
chat_endpoint_validate(s) ==
  /\ pc[s] = "received" /\ endpoint[s] = "chat"
  /\ IF ChatRequest(request[s]).errors # <<>>
     THEN /\ Finish(s, HTTPException(422, ChatRequest(request[s]).errors))
          /\ UNCHANGED question
     ELSE /\ question' = Set(question, s, ChatRequest(request[s]).question)
          /\ pc' = Set(pc, s, "embed")
          /\ UNCHANGED response
  /\ UNCHANGED <<endpoint, request, question_embedding, search_results, answer,
                 calls, printed, raised>>

\* chat_endpoint_embed calling the embedding provider a second time when
\* the first call failed
chat_endpoint_embed_retry(s, out) ==
  /\ pc[s] = "embed" /\ endpoint[s] = "chat"
  /\ calls' = Add(calls, s, <<[op |-> "embeddings.create",
                               model |-> openai_service.embedding_deployment,
                               input |-> question[s], out |-> out]>>)
  /\ printed' = Add(printed, s, get_embedding(out).printed)
  /\ question_embedding' = Set(question_embedding, s, get_embedding(out).ret)
  /\ IF get_embedding(out).ret = None
     THEN IF calls[s] = <<>>
          THEN UNCHANGED <<pc, response>>
          ELSE Finish(s, HTTPException(503,
                           <<"AI service temporarily unavailable. Please try again.">>))
     ELSE pc' = Set(pc, s, "search") /\ UNCHANGED response
  /\ UNCHANGED <<endpoint, request, question, search_results, answer, raised>>

\* lines 262-269
chat_endpoint_embed(s, out) ==
  /\ pc[s] = "embed" /\ endpoint[s] = "chat"
  /\ calls' = Add(calls, s, <<[op |-> "embeddings.create",
                               model |-> openai_service.embedding_deployment,
                               input |-> question[s], out |-> out]>>)
  /\ printed' = Add(printed, s, get_embedding(out).printed)
  /\ question_embedding' = Set(question_embedding, s, get_embedding(out).ret)
  /\ IF get_embedding(out).ret = None
     THEN Finish(s, HTTPException(503,
                      <<"AI service temporarily unavailable. Please try again.">>))
     ELSE pc' = Set(pc, s, "search") /\ UNCHANGED response
  /\ UNCHANGED <<endpoint, request, question, search_results, answer, raised>>

\* chat_endpoint_search raising the error copied from the embedding step
chat_endpoint_search_copied(s, http) ==
  /\ pc[s] = "search" /\ endpoint[s] = "chat"
  /\ calls' = Add(calls, s, <<[op |-> "docs/search",
                               index |-> search_service.index_name,
                               vector |-> question_embedding[s][1],
                               top_k |-> ChatRequest(request[s]).max_results,
                               out |-> http]>>)
  /\ printed' = Add(printed, s, vector_search(http).printed)
  /\ search_results' = Set(search_results, s, vector_search(http).ret)
  /\ IF vector_search(http).ret = None
     THEN Finish(s, HTTPException(503,
                      <<"AI service temporarily unavailable. Please try again.">>))
     ELSE pc' = Set(pc, s, "generate") /\ UNCHANGED response
  /\ UNCHANGED <<endpoint, request, question, question_embedding, answer, raised>>

\* lines 271-280
chat_endpoint_search(s, http) ==
  /\ pc[s] = "search" /\ endpoint[s] = "chat"
  /\ calls' = Add(calls, s, <<[op |-> "docs/search",
                               index |-> search_service.index_name,
                               vector |-> question_embedding[s][1],
                               top_k |-> ChatRequest(request[s]).max_results,
                               out |-> http]>>)
  /\ printed' = Add(printed, s, vector_search(http).printed)
  /\ search_results' = Set(search_results, s, vector_search(http).ret)
  /\ IF vector_search(http).ret = None
     THEN Finish(s, HTTPException(503,
                      <<"Search service temporarily unavailable. Please try again.">>))
     ELSE pc' = Set(pc, s, "generate") /\ UNCHANGED response
  /\ UNCHANGED <<endpoint, request, question, question_embedding, answer, raised>>

\* lines 282-338; response_time_ms is the time measured at line 292
chat_endpoint_generate(s, out, response_time_ms) ==
  LET rag == generate_rag_response(question[s], search_results[s][1], out)
      bad == PreviewError(search_results[s][1])
  IN
  /\ pc[s] = "generate" /\ endpoint[s] = "chat"
  /\ calls' = Add(calls, s, [k \in DOMAIN rag.called |->
                                rag.called[k] @@ ("model" :> openai_service.chat_deployment)])
  /\ printed' = Add(printed, s, rag.printed)
  /\ IF rag.exc # None
     THEN /\ raised' = Add(raised, s, rag.exc)
          /\ Finish(s, chat_endpoint_except(rag.exc[1]))
          /\ UNCHANGED answer
     ELSE /\ answer' = Set(answer, s, rag.ret)
          /\ IF rag.ret = None
             THEN /\ Finish(s, HTTPException(503,
                              <<"AI response generation failed. Please try again.">>))
                  /\ UNCHANGED raised
             ELSE IF bad # None
             THEN /\ raised' = Add(raised, s, bad)
                  /\ Finish(s, chat_endpoint_except(bad[1]))
             ELSE /\ Finish(s, ChatResponse(question[s], rag.ret[1],
                                            search_results[s][1], response_time_ms))
                  /\ UNCHANGED raised
  /\ UNCHANGED <<endpoint, request, question, question_embedding, search_results>>

(* ------------------------ test_rag_pipeline.py ------------------------ *)
\* get_question_embedding (lines 25-34)
get_question_embedding(out) ==
  IF out.exc # None
  THEN [ret |-> None,
        printed |-> << <<"Error generating question embedding: ", out.exc[1].msg>> >>]
  ELSE [ret |-> Some(out.data), printed |-> <<>>]

\* search_similar_documents (lines 37-71): the whole JSON body is returned
search_similar_documents(http) ==
  IF http.exc # None
  THEN [ret |-> None, printed |-> << <<"Error searching documents: ", http.exc[1].msg>> >>]
  ELSE IF http.status_code = 200
  THEN [ret |-> Some(http.json), printed |-> <<>>]
  ELSE [ret |-> None,
        printed |-> << <<"Search error: ", ToString(http.status_code)>>,
                       <<"Response: ">> \o http.text >>]

\* the listing loop of test_rag_pipeline (lines 131-133): the lines printed
\* and the exception that ends it, if any
RECURSIVE ScriptListing(_, _)
ScriptListing(docs, i) ==
  IF i > Len(docs) THEN [printed |-> <<>>, exc |-> None]
  ELSE IF MissingKey(docs[i], <<"source_file", "chunk_index">>) # None
  THEN [printed |-> <<>>,
        exc |-> Some(KeyError(MissingKey(docs[i], <<"source_file", "chunk_index">>)[1]))]
  ELSE IF "content" \notin DOMAIN docs[i]
  THEN [printed |-> << <<ToString(i), ". ", docs[i].source_file, " (chunk ",
                         ToString(docs[i].chunk_index), ")">> >>,
        exc |-> Some(KeyError("content"))]
  ELSE IF docs[i].content = JsonNull
  THEN [printed |-> << <<ToString(i), ". ", docs[i].source_file, " (chunk ",
                         ToString(docs[i].chunk_index), ")">> >>,
        exc |-> Some(NotSubscriptable)]
  ELSE [printed |-> << <<ToString(i), ". ", docs[i].source_file, " (chunk ",
                         ToString(docs[i].chunk_index), ")">>,
                       <<"Preview: ">> \o Preview(docs[i].content) >>
                      \o ScriptListing(docs, i + 1).printed,
        exc |-> ScriptListing(docs, i + 1).exc]

\* generate_answer (lines 74-106)
generate_answer(q, context_docs, out) ==
  IF LookupError(context_docs, <<"content">>) # None
  THEN [exc |-> LookupError(context_docs, <<"content">>), ret |-> None,
        printed |-> <<>>, called |-> <<>>]
  ELSE IF \E i \in 1..Len(context_docs) : context_docs[i].content = JsonNull
  THEN [exc |-> Some(Exception("TypeError", "expected str instance, NoneType found")),
        ret |-> None, printed |-> <<>>, called |-> <<>>]
  ELSE [exc |-> None,
        ret |-> IF out.exc # None THEN None ELSE out.content,
        printed |-> IF out.exc # None
                    THEN << <<"Error generating answer: ", out.exc[1].msg>> >>
                    ELSE <<>>,
        called |-> << [op |-> "chat.completions.create",
                       messages |->
                         << [role |-> "system",
                             content |-> <<"You are a helpful Python documentation assistant.">>],
                            [role |-> "user",
                             content |->
                               <<"Context:\n">>
                                 \o Join([i \in 1..Len(context_docs) |-> context_docs[i].content],
                                         <<"\n\n">>)
                                 \o PromptQuestion \o q \o <<"\n\nAnswer: ...">>] >>,
                       max_tokens |-> ScriptMaxTokens,
                       out |-> out] >>]

\* the outcome of a run of the script: it returned ret, or ended in exception e
Returned(ret) == [returned |-> ret]
Uncaught(e) == [uncaught |-> e]

\* lines 109-122
test_rag_pipeline_embed(s, out) ==
  /\ pc[s] = "received" /\ endpoint[s] = "script"
  /\ question' = Set(question, s, request[s].question)
  /\ calls' = Add(calls, s, <<[op |-> "embeddings.create", input |-> request[s].question,
                               out |-> out]>>)
  /\ printed' = Add(printed, s,
                    << <<"Question: ">> \o request[s].question,
                       Rep("=", 50),
                       <<"Step 1: Converting question to embedding...">> >>
                      \o get_question_embedding(out).printed)
  /\ question_embedding' = Set(question_embedding, s, get_question_embedding(out).ret)
  /\ IF get_question_embedding(out).ret = None \/ get_question_embedding(out).ret = Some(<<>>)
     THEN Finish(s, Returned(None))
     ELSE pc' = Set(pc, s, "search") /\ UNCHANGED response
  /\ UNCHANGED <<endpoint, request, search_results, answer, raised>>

\* lines 124-133
test_rag_pipeline_search(s, http) ==
  LET found == search_similar_documents(http).ret
      listing == ScriptListing(found[1].value, 1)
  IN
  /\ pc[s] = "search" /\ endpoint[s] = "script"
  /\ calls' = Add(calls, s, <<[op |-> "docs/search",
                               vector |-> question_embedding[s][1],
                               top_k |-> ScriptTopK,
                               out |-> http]>>)
  /\ search_results' = Set(search_results, s, found)
  /\ IF found = None \/ DOMAIN found[1] = {}
     THEN /\ printed' = Add(printed, s,
                            << <<"Step 2: Searching for relevant documents...">> >>
                              \o search_similar_documents(http).printed)
          /\ Finish(s, Returned(None))
          /\ UNCHANGED raised
     ELSE IF "value" \notin DOMAIN found[1]
     THEN /\ printed' = Add(printed, s,
                            << <<"Step 2: Searching for relevant documents...">> >>)
          /\ raised' = Add(raised, s, <<KeyError("value")>>)
          /\ Finish(s, Uncaught(KeyError("value")))
     ELSE /\ printed' = Add(printed, s,
                            << <<"Step 2: Searching for relevant documents...">>,
                               <<"Found ", ToString(Len(found[1].value)),
                                 " relevant documents:">> >>
                              \o listing.printed)
          /\ IF listing.exc # None
             THEN /\ raised' = Add(raised, s, listing.exc)
                  /\ Finish(s, Uncaught(listing.exc[1]))
             ELSE /\ pc' = Set(pc, s, "generate")
                  /\ UNCHANGED <<response, raised>>
  /\ UNCHANGED <<endpoint, request, question, question_embedding, answer>>

\* lines 135-142
test_rag_pipeline_generate(s, out) ==
  LET gen == generate_answer(question[s], search_results[s][1].value, out)
  IN
  /\ pc[s] = "generate" /\ endpoint[s] = "script"
  /\ calls' = Add(calls, s, gen.called)
  /\ IF gen.exc # None
     THEN /\ printed' = Add(printed, s, << <<"Step 3: Generating answer...">> >>)
          /\ raised' = Add(raised, s, gen.exc)
          /\ Finish(s, Uncaught(gen.exc[1]))
          /\ UNCHANGED answer
     ELSE /\ answer' = Set(answer, s, gen.ret)
          /\ printed' = Add(printed, s,
                            << <<"Step 3: Generating answer...">> >> \o gen.printed
                              \o (IF gen.ret # None /\ gen.ret # Some(<<>>)
                                  THEN << <<"Answer:\n">> \o gen.ret[1] >>
                                  ELSE <<>>))
          /\ Finish(s, Returned(gen.ret))
          /\ UNCHANGED raised
  /\ UNCHANGED <<endpoint, request, question, question_embedding, search_results>>

(* --------------------------- specification ---------------------------- *)
\* the steps of the request in slot s in environment env: the questions and
\* limits submitted, and what the three providers may do
Step(s, env) ==
  \/ \E ep \in Endpoints, q \in env.questions, k \in env.limits :
       /\ ep = "script" => k = ScriptTopK
       /\ Submit(s, ep, q, k)
       /\ UNCHANGED <<serviceVars, ingestVars>>
  \/ ask_question_validate(s) /\ UNCHANGED <<serviceVars, ingestVars>>
  \/ \E out \in env.embeds : ask_question_embed(s, out) /\ UNCHANGED <<serviceVars, ingestVars>>
  \/ \E http \in env.searches : ask_question_search(s, http) /\ UNCHANGED <<serviceVars, ingestVars>>
  \/ \E out \in env.gens : ask_question_generate(s, out) /\ UNCHANGED <<serviceVars, ingestVars>>
  \/ chat_endpoint_validate(s) /\ UNCHANGED <<serviceVars, ingestVars>>
  \/ \E out \in env.embeds : chat_endpoint_embed(s, out) /\ UNCHANGED <<serviceVars, ingestVars>>
  \/ \E http \in env.searches : chat_endpoint_search(s, http) /\ UNCHANGED <<serviceVars, ingestVars>>
  \/ \E out \in env.gens, t \in env.times :
       chat_endpoint_generate(s, out, t) /\ UNCHANGED <<serviceVars, ingestVars>>
  \/ \E out \in env.embeds : test_rag_pipeline_embed(s, out) /\ UNCHANGED <<serviceVars, ingestVars>>
  \/ \E http \in env.searches : test_rag_pipeline_search(s, http) /\ UNCHANGED <<serviceVars, ingestVars>>
  \/ \E out \in env.gens : test_rag_pipeline_generate(s, out) /\ UNCHANGED <<serviceVars, ingestVars>>

\* every input, every provider outcome
FullEnv ==
  [questions |-> Questions, limits |-> MaxResultsInputs, embeds |-> EmbedOutcomes,
   searches |-> SearchOutcomes, gens |-> GenOutcomes, times |-> ResponseTimes]

\* one request at a time
Next == Step(1, FullEnv)

Spec == Init /\ [][Next]_vars

\* two requests side by side, their steps interleaved, in an environment cut
\* down to two valid questions and to result lists of at most one document
PairLists == ResultListsOf({DocIntro, DocNoContent, DocNoSource}, 1)

PairEnv ==
  [questions |-> {Q_SHORT, Q_MAX}, limits |-> {DefaultMaxResults},
   embeds |-> {o \in EmbedOutcomes : o.data # <<3, 4>>},
   searches |-> SearchOutcomesOf(PairLists), gens |-> GenOutcomes, times |-> {0}]

NextPair == \E s \in Slots : Step(s, PairEnv)

SpecPair == Init /\ [][NextPair]_vars

(* --------------------- specification: chunk_text ---------------------- *)
\* the words the texts are made of: two short ones, one of which two joined
\* stay one character under MinChunkChars, one of MinChunkChars characters
ChunkWords ==
  {<<"a">>, <<"b">>, <<Word("x", (MinChunkChars - 2) \div 2)>>, <<Word("z", MinChunkChars)>>}

WordLists(n) == UNION {[1..k -> ChunkWords] : k \in 0..n}

\* the words joined by single spaces, and for the short lists also padded
\* and joined by double spaces
ChunkTexts ==
  {Join(ws, <<" ">>) : ws \in WordLists(MaxWords)}
    \cup {<<" ", " ">> \o Join(ws, <<" ", " ">>) \o <<" ">> : ws \in WordLists(2)}

ChunkSizes == 1..MaxWindow

Overlaps == (0 - 1)..(MaxWindow + 1)

InitChunk ==
  /\ QueryIdle /\ DocsIdle /\ IndexingRun(None)
  /\ \E t \in ChunkTexts, m \in ChunkSizes, o \in Overlaps : ChunkCall(t, m, o)

\* chunk_text(text, max_chunk_size, overlap) runs to its end
chunk_text_call ==
  /\ chunks = None /\ chunk_raised = None
  /\ chunk_raised' = chunk_text(text, max_chunk_size, overlap).exc
  /\ chunks' = IF chunk_text(text, max_chunk_size, overlap).exc = None
               THEN Some(chunk_text(text, max_chunk_size, overlap).ret)
               ELSE None
  /\ UNCHANGED <<text, max_chunk_size, overlap>>
  /\ UNCHANGED <<queryVars, serviceVars, docsVars, embedVars, indexVars>>

NextChunk == chunk_text_call

SpecChunk == InitChunk /\ [][NextChunk]_vars

(* ---------------- specification: process_all_documents ---------------- *)
\* file names of the documents directory
F_INTRO == <<"intro", ".html">>
F_INTRO_TWICE == <<"intro", ".html", ".html">>
F_NOTES == <<"notes", ".txt">>

FileNames == {F_INTRO, F_INTRO_TWICE, F_NOTES}

\* the cleaned text of n distinct tokens w0, w1, ... joined by single spaces
TokenText(n) == Join([k \in 1..n |-> <<"w" \o ToString(k - 1)>>], <<" ">>)

\* cleaned texts: empty, one character under MinDocumentChars, exactly
\* MinDocumentChars, one whose last window is too short to keep, and the
\* text of ScenarioTokens tokens
CleanTexts ==
  {<<>>,
   <<Word("d", MinDocumentChars - 1)>>,
   <<Word("e", MinDocumentChars)>>,
   TokenText(2 * (DefaultChunkSize - DefaultOverlap) + 10),
   TokenText(ScenarioTokens)}

\* what opening, reading and cleaning a file gives
ReadOutcomes ==
  {[exc |-> Some(Exception("UnicodeDecodeError", "invalid start byte")), clean_text |-> <<>>]}
    \cup {[exc |-> None, clean_text |-> t] : t \in CleanTexts}

\* the directories of at most MaxFiles files, and the missing directory; a
\* file whose name does not end in .html is never opened (line 100), so one
\* content stands for all it can have
Directories ==
  {None} \cup
  {Some(d) : d \in {e \in UNION {[N -> ReadOutcomes] :
                                   N \in {M \in SUBSET FileNames : Cardinality(M) <= MaxFiles}} :
                      \A f \in DOMAIN e :
                        ~EndsWith(f, ".html") => e[f] = [exc |-> None, clean_text |-> <<>>]}}

InitDocs ==
  /\ QueryIdle /\ IndexingRun(None)
  /\ ChunkCall(<<>>, DefaultChunkSize, DefaultOverlap)
  /\ \E d \in Directories : DocsRun(d)

\* lines 96-103: the directory is missing, or its .html files are listed
\* in the order listing gives
process_all_documents_list(listing) ==
  /\ docs_pc = "start"
  /\ IF docs_dir = None
     THEN /\ listing = <<>>
          /\ docs_pc' = "returned"
          /\ docs_printed' = << <<"Directory ", "python_docs", " not found!">> >>
     ELSE /\ {listing[k] : k \in 1..Len(listing)}
               = {f \in DOMAIN docs_dir[1] : EndsWith(f, ".html")}
          /\ \A j, k \in 1..Len(listing) : listing[j] = listing[k] => j = k
          /\ docs_pc' = "loop"
          /\ docs_printed' = << <<"Found ", ToString(Len(listing)), " HTML files to process">> >>
  /\ html_files' = listing
  /\ UNCHANGED <<docs_dir, file_index, all_chunks, processed>>
  /\ UNCHANGED <<queryVars, serviceVars, chunkVars, embedVars, indexVars>>

\* lines 105-111: one turn of the loop over html_files
process_all_documents_file ==
  /\ docs_pc = "loop" /\ file_index < Len(html_files)
  /\ LET filename == html_files[file_index + 1]
         result == process_document(filename, docs_dir[1][filename])
     IN /\ all_chunks' = all_chunks \o result.ret
        /\ processed' = Append(processed, [filename |-> filename, chunks |-> result.ret])
        /\ docs_printed' = docs_printed \o << <<"Processing: ", Flatten(filename)>> >>
                             \o result.printed
                             \o << <<"  - Created ", ToString(Len(result.ret)), " chunks">> >>
  /\ file_index' = file_index + 1
  /\ UNCHANGED <<docs_dir, docs_pc, html_files>>
  /\ UNCHANGED <<queryVars, serviceVars, chunkVars, embedVars, indexVars>>

\* line 113
process_all_documents_return ==
  /\ docs_pc = "loop" /\ file_index = Len(html_files)
  /\ docs_pc' = "returned"
  /\ UNCHANGED <<docs_dir, html_files, file_index, all_chunks, processed, docs_printed>>
  /\ UNCHANGED <<queryVars, serviceVars, chunkVars, embedVars, indexVars>>

\* the orders in which os.listdir can list files
Listings ==
  UNION {{l \in [1..k -> FileNames] : \A i, j \in 1..k : l[i] = l[j] => i = j} :
           k \in 0..MaxFiles}

DocsStep ==
  \/ \E listing \in Listings : process_all_documents_list(listing)
  \/ process_all_documents_file
  \/ process_all_documents_return

NextDocs == DocsStep

SpecDocs == InitDocs /\ [][NextDocs]_vars

(* ------------------ specification: embedding and index ---------------- *)
\* the k-th passage of the input file, as document_processor.py writes it
ProcessedPassage(k) == ChunkData(<<"intro">>, k - 1, <<Word("c", MinChunkChars + k)>>)

\* input files: none, short lists, and one list longer than MaxEmbedChunks
ProcessedFiles ==
  {None} \cup
  {Some([k \in 1..n |-> ProcessedPassage(k)]) : n \in (0..MaxChunks) \cup {MaxEmbedChunks + 1}}

Vector(n) == [k \in 1..n |-> 0]

\* what embeddings.create can give: an error, a vector of the dimensions of
\* the index, a vector of a model of other dimensions, an empty vector
EmbeddingAnswers ==
  {[exc |-> Some(Exception("RateLimitError", "rate limit exceeded")), data |-> <<>>],
   [exc |-> None, data |-> Vector(EmbeddingDim)],
   [exc |-> None, data |-> Vector(2 * EmbeddingDim)],
   [exc |-> None, data |-> <<>>]}

\* the answers to the call for chunk i: all of them for the first MaxChunks
\* calls, a vector of the dimensions of the index after those
EmbeddingAnswersAt(i) ==
  IF i < MaxChunks THEN EmbeddingAnswers
  ELSE {[exc |-> None, data |-> Vector(EmbeddingDim)]}

HttpAnswer(exc, status_code, body, json) ==
  [exc |-> exc, status_code |-> status_code, text |-> body, json |-> json]

NoJson == ("error" :> "x")

HttpFailure == HttpAnswer(Some(Exception("ConnectionError", "connection reset")), 0, <<>>, NoJson)

DeleteAnswers ==
  {HttpFailure} \cup {HttpAnswer(None, c, <<>>, NoJson) : c \in {204, 404, 500}}

CreateAnswers ==
  {HttpFailure, HttpAnswer(None, 201, <<>>, NoJson),
   HttpAnswer(None, 400, <<"bad request">>, NoJson)}

\* the per-document results of the index for a batch: all accepted, none
\* accepted, only the first accepted
IndexResults(batch) ==
  {[k \in 1..Len(batch) |-> [key |-> batch[k].id, status |-> b]] : b \in BOOLEAN}
    \cup {[k \in 1..Len(batch) |-> [key |-> batch[k].id, status |-> (k = 1)]]}

\* what the post of a batch can give
UploadAnswers(batch) ==
  {HttpFailure, HttpAnswer(None, 503, <<"unavailable">>, NoJson),
   HttpAnswer(None, 200, <<>>, NoJson)}
    \cup {HttpAnswer(None, c, <<"results">>, [value |-> r]) :
            c \in {200, 207}, r \in IndexResults(batch)}

InitIndexing ==
  /\ QueryIdle
  /\ ChunkCall(<<>>, DefaultChunkSize, DefaultOverlap)
  /\ DocsIdle
  /\ \E f \in ProcessedFiles : IndexingRun(f)

\* process_chunks_with_embeddings, lines 41-51: the input file is loaded and
\* cut to MaxEmbedChunks chunks; a missing file ends the script
process_chunks_load ==
  /\ emb_pc = "start"
  /\ IF input_file = None
     THEN /\ emb_pc' = "crashed"
          /\ UNCHANGED <<emb_chunks, emb_printed>>
     ELSE /\ emb_chunks' = Truncate(input_file[1], MaxEmbedChunks)
          /\ emb_printed' =
               << <<"Processing ", ToString(Len(Truncate(input_file[1], MaxEmbedChunks))),
                    " chunks (limited for testing)">> >>
          /\ emb_pc' = IF Truncate(input_file[1], MaxEmbedChunks) = <<>>
                       THEN "returned" ELSE "embed"
  /\ UNCHANGED <<input_file, emb_i, emb_calls, emb_slept, chunks_file>>
  /\ UNCHANGED <<indexVars, queryVars, serviceVars, chunkVars, docsVars>>

\* process_chunks_embed ending the batch at the first chunk that gets no
\* embedding
process_chunks_embed_abort(out) ==
  /\ emb_pc = "embed"
  /\ LET chunk == emb_chunks[emb_i + 1]
         embedding == generate_embedding(out).ret
     IN /\ emb_calls' = Append(emb_calls, [input |-> chunk.content, out |-> out])
        /\ emb_chunks' =
             IF Truthy(embedding)
             THEN [emb_chunks EXCEPT ![emb_i + 1] = WithEmbedding(chunk, embedding[1])]
             ELSE emb_chunks
        /\ emb_printed' =
             emb_printed
               \o << <<"Processing chunk ", ToString(emb_i + 1), "/",
                       ToString(Len(emb_chunks)), ": ", chunk.id>> >>
               \o generate_embedding(out).printed
               \o (IF Truthy(embedding)
                   THEN << <<"  - Generated embedding (", ToString(Len(embedding[1])),
                             " dimensions)">> >>
                   ELSE << <<"  - Failed to generate embedding">> >>)
  /\ emb_pc' = IF emb_i < Len(emb_chunks) - 1 /\ Truthy(generate_embedding(out).ret)
               THEN "sleep" ELSE "returned"
  /\ UNCHANGED <<input_file, emb_i, emb_slept, chunks_file>>
  /\ UNCHANGED <<indexVars, queryVars, serviceVars, chunkVars, docsVars>>

\* lines 55-64: chunk i is embedded; out is what embeddings.create gave
process_chunks_embed(out) ==
  /\ emb_pc = "embed"
  /\ LET chunk == emb_chunks[emb_i + 1]
         embedding == generate_embedding(out).ret
     IN /\ emb_calls' = Append(emb_calls, [input |-> chunk.content, out |-> out])
        /\ emb_chunks' =
             IF Truthy(embedding)
             THEN [emb_chunks EXCEPT ![emb_i + 1] = WithEmbedding(chunk, embedding[1])]
             ELSE emb_chunks
        /\ emb_printed' =
             emb_printed
               \o << <<"Processing chunk ", ToString(emb_i + 1), "/",
                       ToString(Len(emb_chunks)), ": ", chunk.id>> >>
               \o generate_embedding(out).printed
               \o (IF Truthy(embedding)
                   THEN << <<"  - Generated embedding (", ToString(Len(embedding[1])),
                             " dimensions)">> >>
                   ELSE << <<"  - Failed to generate embedding">> >>)
  /\ emb_pc' = IF emb_i < Len(emb_chunks) - 1 THEN "sleep" ELSE "returned"
  /\ UNCHANGED <<input_file, emb_i, emb_slept, chunks_file>>
  /\ UNCHANGED <<indexVars, queryVars, serviceVars, chunkVars, docsVars>>

\* process_chunks_sleep pausing only after a call that gave an embedding
process_chunks_sleep_onsuccess ==
  /\ emb_pc = "sleep"
  /\ emb_printed' = Append(emb_printed, <<"  - Waiting 12 seconds (rate limit)...">>)
  /\ emb_slept' = IF generate_embedding(emb_calls[Len(emb_calls)].out).ret # None
                  THEN Append(emb_slept, SleepSeconds) ELSE emb_slept
  /\ emb_i' = emb_i + 1
  /\ emb_pc' = "embed"
  /\ UNCHANGED <<input_file, emb_chunks, emb_calls, chunks_file>>
  /\ UNCHANGED <<indexVars, queryVars, serviceVars, chunkVars, docsVars>>

\* lines 67-69: the pause before the next chunk
process_chunks_sleep ==
  /\ emb_pc = "sleep"
  /\ emb_printed' = Append(emb_printed, <<"  - Waiting 12 seconds (rate limit)...">>)
  /\ emb_slept' = Append(emb_slept, SleepSeconds)
  /\ emb_i' = emb_i + 1
  /\ emb_pc' = "embed"
  /\ UNCHANGED <<input_file, emb_chunks, emb_calls, chunks_file>>
  /\ UNCHANGED <<indexVars, queryVars, serviceVars, chunkVars, docsVars>>

\* generate_embeddings.py, lines 76-91: the chunks are saved
generate_embeddings_save ==
  /\ emb_pc = "returned"
  /\ chunks_file' = Some(emb_chunks)
  /\ emb_printed' =
       emb_printed
         \o << <<"Embedding generation complete!">>,
               <<"Successfully generated ", ToString(SuccessfulEmbeddings(emb_chunks)), "/",
                 ToString(Len(emb_chunks)), " embeddings">>,
               <<"Saved to: ", "chunks_with_embeddings.json">> >>
  /\ emb_pc' = "saved"
  /\ UNCHANGED <<input_file, emb_chunks, emb_i, emb_calls, emb_slept>>
  /\ UNCHANGED <<indexVars, queryVars, serviceVars, chunkVars, docsVars>>

\* azure_search_indexer.py, lines 155-159 and 165-166, run once
\* generate_embeddings.py has ended: the index is deleted and created
indexer_create(deleted, created) ==
  /\ idx_pc = "start" /\ emb_pc \in {"saved", "crashed"}
  /\ idx_printed' =
       << <<"Deleting existing index if it exists...">>, delete_index_if_exists(deleted),
          <<"Creating Azure AI Search index...">> >>
         \o create_search_index(created).printed
         \o (IF create_search_index(created).ret
             THEN << <<"Uploading documents with embeddings...">> >>
             ELSE << <<"Failed to create index.">> >>)
  /\ idx_pc' = IF create_search_index(created).ret THEN "upload" ELSE "done"
  /\ UNCHANGED <<documents, upload_http, upload_returned>>
  /\ UNCHANGED <<embedVars, queryVars, serviceVars, chunkVars, docsVars>>

\* lines 161-164 with upload_documents (lines 105-151): the batch is built
\* from chunks_with_embeddings.json and posted; a missing file ends the
\* script
indexer_upload(http) ==
  /\ idx_pc = "upload"
  /\ IF chunks_file = None
     THEN /\ http = HttpFailure
          /\ idx_pc' = "crashed"
          /\ UNCHANGED <<documents, upload_http, upload_returned, idx_printed>>
     ELSE /\ http \in UploadAnswers(PrepareDocuments(chunks_file[1]))
          /\ documents' = Some(PrepareDocuments(chunks_file[1]))
          /\ upload_http' = Some(http)
          /\ upload_returned' =
               Some(upload_documents(PrepareDocuments(chunks_file[1]), http).ret)
          /\ idx_printed' =
               idx_printed
                 \o upload_documents(PrepareDocuments(chunks_file[1]), http).printed
                 \o (IF upload_documents(PrepareDocuments(chunks_file[1]), http).ret
                     THEN << <<"Indexing complete! Your RAG knowledge base is ready.">> >>
                     ELSE << <<"Failed to upload documents.">> >>)
          /\ idx_pc' = "done"
  /\ UNCHANGED <<embedVars, queryVars, serviceVars, chunkVars, docsVars>>

IndexingStep ==
  \/ process_chunks_load
  \/ \E out \in EmbeddingAnswersAt(emb_i) : process_chunks_embed(out)
  \/ process_chunks_sleep
  \/ generate_embeddings_save
  \/ \E deleted \in DeleteAnswers, created \in CreateAnswers : indexer_create(deleted, created)
  \/ \E http \in (IF chunks_file = None THEN {HttpFailure}
                  ELSE UploadAnswers(PrepareDocuments(chunks_file[1]))) : indexer_upload(http)

NextIndexing == IndexingStep

SpecIndexing == InitIndexing /\ [][NextIndexing]_vars

(* ------------- specification: the chunker and its caller ------------- *)
InitIngest == InitChunk \/ InitDocs

NextIngest == NextChunk \/ NextDocs

SpecIngest == InitIngest /\ [][NextIngest]_vars

(* ------------------------- reading the state -------------------------- *)
Handlers == {"ask", "chat"}

Done(s) == pc[s] = "done"

\* the i-th provider call of request s is a call of op
IsCall(s, i, op) == i \in 1..Len(calls[s]) /\ calls[s][i].op = op

Called(s, op) == \E i \in 1..Len(calls[s]) : IsCall(s, i, op)

\* the embedding provider failed: get_embedding returned None
EmbeddingFailed(s) ==
  \E i \in 1..Len(calls[s]) : IsCall(s, i, "embeddings.create") /\ calls[s][i].out.exc # None

\* the search provider failed: vector_search returned None
SearchFailed(s) ==
  \E i \in 1..Len(calls[s]) :
    /\ IsCall(s, i, "docs/search")
    /\ calls[s][i].out.exc # None \/ calls[s][i].out.status_code # 200

\* the generation provider failed: generate_completion returned None
GenerationFailed(s) ==
  \E i \in 1..Len(calls[s]) :
    /\ IsCall(s, i, "chat.completions.create")
    /\ calls[s][i].out.exc # None \/ calls[s][i].out.content = None

\* the outcome r is an HTTP error / a response body with an answer
IsError(r) == DOMAIN r = {"status_code", "detail"}
HasAnswer(r) == "answer" \in DOMAIN r

\* the outcome r is a validation error
IsValidationError(r) == IsError(r) /\ r.status_code \in {400, 422}

\* the question is empty or whitespace only
Blank(q) == \A i \in 1..Len(q) : IsSpace(q[i])

(* ------------------------------- claims ------------------------------- *)

\* C1: in every query pipeline (/ask, /chat, the script), once embedding the
\* question has failed the request is over with the embedding-stage error of
\* its entry point (500 "Failed to generate question embedding" on /ask, 503
\* "AI service temporarily unavailable" on /chat, a None result under the
\* printed "Error generating question embedding" in the script), and neither
\* the vector search nor the generation was invoked.
C1_EmbeddingFailureStopsRequest ==
  \A s \in Slots :
    EmbeddingFailed(s) =>
      /\ Done(s)
      /\ ~Called(s, "docs/search")
      /\ ~Called(s, "chat.completions.create")
      /\ question_embedding[s] = None
      /\ response[s] # None
      /\ CASE endpoint[s] = "ask" ->
                response[s][1] = HTTPException(500, <<"Failed to generate question embedding">>)
           [] endpoint[s] = "chat" ->
                response[s][1] = HTTPException(503,
                                   <<"AI service temporarily unavailable. Please try again.">>)
           [] endpoint[s] = "script" ->
                /\ response[s][1] = Returned(None)
                /\ printed[s] # <<>>
                /\ printed[s][Len(printed[s])][1] = "Error generating question embedding: "

C1_Witness ==
  \E s \in Slots : EmbeddingFailed(s) /\ Done(s) /\ endpoint[s] = "script"

\* C2: on /ask and /chat a question that is empty or whitespace only, with
\* any max_results, makes no provider call at all and ends in a validation
\* error (400 or 422).
C2_BlankQuestionRejected ==
  \A s \in Slots :
    (endpoint[s] \in Handlers /\ Blank(request[s].question)) =>
      /\ calls[s] = <<>>
      /\ pc[s] \in {"received", "done"}
      /\ Done(s) => IsValidationError(response[s][1])

C2_Witness ==
  \E s \in Slots :
    /\ endpoint[s] = "chat" /\ request[s].question = Q_BLANK
    /\ request[s].max_results = MaxResultsLimit /\ Done(s)

\* C3: on /ask and /chat a max_results outside [1,10] makes no provider call
\* and ends in a validation error, so no search is made with a top_k outside
\* [1,10]; the boundary values 1 and 10 are not rejected.
C3_MaxResultsValidated ==
  \A s \in Slots :
    endpoint[s] \in Handlers =>
      /\ request[s].max_results \notin MinResults..MaxResultsLimit =>
           /\ calls[s] = <<>>
           /\ Done(s) => IsValidationError(response[s][1])
      /\ \A i \in 1..Len(calls[s]) :
           IsCall(s, i, "docs/search") => calls[s][i].top_k \in MinResults..MaxResultsLimit
      /\ ( /\ request[s].max_results \in {MinResults, MaxResultsLimit}
           /\ ~Blank(request[s].question)
           /\ Len(Strip(request[s].question)) <= MaxQuestionLen
           /\ Done(s) )
           => ~IsValidationError(response[s][1])

\* C4: on /ask and /chat a question of more than 500 characters (once
\* stripped) makes no provider call and ends in a validation error; one of
\* exactly 500 characters is not rejected.
C4_LongQuestionRejected ==
  \A s \in Slots :
    endpoint[s] \in Handlers =>
      /\ Len(Strip(request[s].question)) > MaxQuestionLen =>
           /\ calls[s] = <<>>
           /\ Done(s) => IsValidationError(response[s][1])
      /\ ( /\ Len(Strip(request[s].question)) = MaxQuestionLen
           /\ request[s].max_results \in MinResults..MaxResultsLimit
           /\ Done(s) )
           => ~IsValidationError(response[s][1])

\* the output of the generation call of request s
GenerationOutput(s) ==
  calls[s][CHOOSE i \in 1..Len(calls[s]) : IsCall(s, i, "chat.completions.create")].out

\* C5: on /ask and /chat, when the vector search returned an empty list the
\* request goes on to generation; once it is over, generation was invoked,
\* and if it produced a text the response carries that text as answer with
\* sources_used = 0 and sources = [].
C5_EmptyResultsStillAnswered ==
  \A s \in Slots :
    (endpoint[s] \in Handlers /\ search_results[s] = Some(<<>>)) =>
      /\ pc[s] \in {"generate", "done"}
      /\ Done(s) =>
           /\ Called(s, "chat.completions.create")
           /\ ~GenerationFailed(s) =>
                /\ HasAnswer(response[s][1])
                /\ response[s][1].answer = GenerationOutput(s).content[1]
                /\ response[s][1].sources_used = 0
                /\ response[s][1].sources = <<>>

C5_Witness ==
  \E s \in Slots :
    /\ endpoint[s] = "ask" /\ search_results[s] = Some(<<>>)
    /\ Done(s) /\ HasAnswer(response[s][1])

\* the context inside the user message of a generation call: what stands
\* between the heading and the "Question:" line
ContextOf(messages) ==
  LET c == messages[2].content
      q == CHOOSE i \in 1..Len(c) : c[i] = "\n\nQuestion: "
  IN SubSeq(c, 2, q - 1)

\* C6: every generation call made through generate_rag_response carries a
\* non-empty context; with zero passages the context is exactly "No relevant
\* context found in the documentation." and the call is still made.
C6_ContextNeverEmpty ==
  \A s \in Slots :
    endpoint[s] \in Handlers =>
      /\ \A i \in 1..Len(calls[s]) :
           IsCall(s, i, "chat.completions.create") =>
             /\ ContextOf(calls[s][i].messages) # <<>>
             /\ search_results[s] = Some(<<>>) <=>
                  ContextOf(calls[s][i].messages)
                    = <<"No relevant context found in the documentation.">>
      /\ (Done(s) /\ search_results[s] = Some(<<>>)) => Called(s, "chat.completions.create")

C6_Witness ==
  \E s \in Slots :
    /\ endpoint[s] = "chat" /\ search_results[s] = Some(<<>>)
    /\ Called(s, "chat.completions.create")

\* C7: on /ask and /chat nothing is handed to the caller before the request
\* is over; a response with an answer is returned only when the embedding,
\* the search and the generation were all invoked and all succeeded; when any
\* of them failed the outcome is an error of status 4xx/5xx that has a detail
\* and no answer, sources or sources_used.
C7_AllOrNothing ==
  \A s \in Slots :
    endpoint[s] \in Handlers =>
      /\ ~Done(s) => response[s] = None
      /\ Done(s) =>
           /\ HasAnswer(response[s][1]) =>
                /\ Called(s, "embeddings.create") /\ ~EmbeddingFailed(s)
                /\ Called(s, "docs/search") /\ ~SearchFailed(s)
                /\ Called(s, "chat.completions.create") /\ ~GenerationFailed(s)
           /\ (EmbeddingFailed(s) \/ SearchFailed(s) \/ GenerationFailed(s)) =>
                /\ IsError(response[s][1])
                /\ response[s][1].status_code >= 400
           /\ IsError(response[s][1]) \/ HasAnswer(response[s][1])

C7_Witness ==
  \E s \in Slots :
    /\ endpoint[s] = "ask" /\ Done(s) /\ GenerationFailed(s)
    /\ search_results[s] # None /\ Len(search_results[s][1]) >= 2

\* the (source_file, chunk index) headings of a context, in the order in
\* which the context lists them
ContextSources(ctx) ==
  LET heads == {p \in 1..Len(ctx) : ctx[p] = "Source: "}
      nth(k) == CHOOSE p \in heads : Cardinality({q \in heads : q < p}) = k - 1
  IN [k \in 1..Cardinality(heads) |-> <<ctx[nth(k) + 1], ctx[nth(k) + 3]>>]

\* C9: on /ask and /chat the list vector_search returns is the provider's
\* list, in the provider's order; the context handed to generation lists
\* those passages in that order; and the sources of a successful response
\* have the same length and order (source i is result i), so that nothing is
\* re-sorted, dropped or duplicated on the way.
C9_ProviderOrderPreserved ==
  \A s \in Slots :
    endpoint[s] \in Handlers =>
      /\ \A i \in 1..Len(calls[s]) :
           ( /\ IsCall(s, i, "docs/search")
             /\ calls[s][i].out.exc = None
             /\ calls[s][i].out.status_code = 200
             /\ "value" \in DOMAIN calls[s][i].out.json )
           => search_results[s] = Some(calls[s][i].out.json.value)
      /\ \A i \in 1..Len(calls[s]) :
           IsCall(s, i, "chat.completions.create") =>
             ContextSources(ContextOf(calls[s][i].messages))
               = [j \in 1..Len(search_results[s][1]) |->
                    <<search_results[s][1][j].source_file,
                      ToString(search_results[s][1][j].chunk_index)>>]
      /\ (Done(s) /\ HasAnswer(response[s][1])) =>
           /\ response[s][1].sources_used = Len(search_results[s][1])
           /\ Len(response[s][1].sources) = Len(search_results[s][1])
           /\ \A j \in 1..Len(search_results[s][1]) :
                /\ response[s][1].sources[j].source_file = search_results[s][1][j].source_file
                /\ response[s][1].sources[j].chunk_index = search_results[s][1][j].chunk_index
                /\ LET shown == Len(response[s][1].sources[j].preview) - 1
                   IN Prefix(response[s][1].sources[j].preview, shown)
                        = Prefix(search_results[s][1][j].content, shown)

\* three results, the provider's order not the order of the chunk indices
C9_Witness ==
  \E s \in Slots :
    /\ endpoint[s] = "chat" /\ Done(s) /\ HasAnswer(response[s][1])
    /\ Len(response[s][1].sources) = 3
    /\ response[s][1].sources[1].chunk_index > response[s][1].sources[2].chunk_index

\* the stage of request s whose provider failed
FailedStage(s) ==
  IF EmbeddingFailed(s) THEN "embedding"
  ELSE IF SearchFailed(s) THEN "search"
  ELSE IF GenerationFailed(s) THEN "generation"
  ELSE "none"

\* C8: on /ask and /chat a request whose embedding, search or generation
\* failed ends in an error (status 4xx/5xx, no answer), and two requests to
\* the same entry point that failed at different stages get different error
\* responses.
C8_StageErrorsDistinct ==
  \A s, t \in Slots :
    (Done(s) /\ endpoint[s] \in Handlers /\ FailedStage(s) # "none") =>
      /\ IsError(response[s][1])
      /\ response[s][1].status_code >= 400
      /\ ( /\ Done(t) /\ endpoint[t] = endpoint[s]
           /\ FailedStage(t) \notin {"none", FailedStage(s)} )
           => response[t][1] # response[s][1]

C8_Witness ==
  /\ Done(1) /\ Done(2) /\ endpoint[1] = "chat" /\ endpoint[2] = "chat"
  /\ FailedStage(1) = "search" /\ FailedStage(2) = "embedding"

\* the runs of requests s and t differ in nothing but the messages of the
\* exceptions raised in them: the same calls in the same order, an exception
\* of the same type at the same places
SameButMessages(s, t) ==
  /\ endpoint[s] = endpoint[t]
  /\ request[s] = request[t]
  /\ Len(calls[s]) = Len(calls[t])
  /\ \A i \in 1..Len(calls[s]) :
       /\ calls[s][i].op = calls[t][i].op
       /\ (calls[s][i].out.exc = None) = (calls[t][i].out.exc = None)
       /\ calls[s][i].out.exc # None =>
            calls[s][i].out.exc[1].type = calls[t][i].out.exc[1].type
  /\ Len(raised[s]) = Len(raised[t])
  /\ \A i \in 1..Len(raised[s]) : raised[s][i].type = raised[t][i].type

\* C10: two failed requests to /ask or /chat whose runs differ only in the
\* messages of the exceptions raised inside the pipeline get the same
\* status and the same detail.
C10_ErrorIndependentOfMessage ==
  \A s, t \in Slots :
    ( /\ Done(s) /\ Done(t) /\ endpoint[s] \in Handlers
      /\ SameButMessages(s, t)
      /\ IsError(response[s][1]) /\ IsError(response[t][1]) )
    => /\ response[s][1].status_code = response[t][1].status_code
       /\ response[s][1].detail = response[t][1].detail

\* the provider operations of one request, in the order of the stages
StageOps == <<"embeddings.create", "docs/search", "chat.completions.create">>

\* C11: within one /ask or /chat request the provider calls are a prefix of
\* embed, search, generate: the search is called only after the embedding
\* call returned a vector (and with that vector), the generation only after
\* the search call returned a list (possibly empty), and once the search has
\* failed the request is over without any generation call.
C11_StagesInOrder ==
  \A s \in Slots :
    endpoint[s] \in Handlers =>
      /\ Len(calls[s]) <= Len(StageOps)
      /\ \A i \in 1..Len(calls[s]) : calls[s][i].op = StageOps[i]
      /\ pc[s] = "embed" => Len(calls[s]) = 0
      /\ pc[s] = "search" => Len(calls[s]) = 1
      /\ pc[s] = "generate" => Len(calls[s]) = 2
      /\ Len(calls[s]) >= 2 =>
           /\ calls[s][1].out.exc = None
           /\ get_embedding(calls[s][1].out).ret = Some(calls[s][2].vector)
      /\ Len(calls[s]) >= 3 =>
           /\ vector_search(calls[s][2].out).ret # None
           /\ vector_search(calls[s][2].out).ret = search_results[s]
      /\ SearchFailed(s) => Done(s) /\ ~Called(s, "chat.completions.create")

C11_Witness ==
  \E s \in Slots :
    /\ endpoint[s] = "ask" /\ Done(s) /\ SearchFailed(s)
    /\ Len(calls[s]) = 2 /\ calls[s][2].out.status_code = 503

\* the parameters of the call of chunk_text satisfy 0 <= overlap < max_chunk_size
ValidChunking == 0 <= overlap /\ overlap < max_chunk_size

\* the call of chunk_text has returned / the list it returned
ChunkReturned == chunks # None
Chunks == chunks[1]

\* C12: for any text and any parameters with 0 <= overlap < max_chunk_size,
\* every chunk chunk_text returns has at most max_chunk_size
\* whitespace-delimited tokens.
C12_ChunkSizeBounded ==
  (ChunkReturned /\ ValidChunking) =>
    \A k \in 1..Len(Chunks) : Len(Split(Chunks[k])) <= max_chunk_size

C12_Witness ==
  /\ ChunkReturned /\ ValidChunking /\ max_chunk_size = 2
  /\ Len(Split(text)) > max_chunk_size
  /\ \E k \in 1..Len(Chunks) : Len(Split(Chunks[k])) = max_chunk_size

\* the tokens of the k-th chunk returned
ChunkTokens(k) == Split(Chunks[k])

\* the k-th and the next chunk returned share overlap tokens: the last
\* overlap tokens of the one are the first overlap tokens of the other
SharesOverlap(k) ==
  /\ Len(ChunkTokens(k)) >= overlap /\ Len(ChunkTokens(k + 1)) >= overlap
  /\ SubSeq(ChunkTokens(k), Len(ChunkTokens(k)) - overlap + 1, Len(ChunkTokens(k)))
       = SubSeq(ChunkTokens(k + 1), 1, overlap)

\* chunk_text discarded no window between the k-th and the next chunk it
\* returned
NoWindowBetween(k) ==
  LET windows == ChunkWindows(Split(text), max_chunk_size, overlap)
      emitted == EmittedWindows(text, max_chunk_size, overlap)
  IN ~ \E j \in 1..Len(windows) :
         emitted[k].i < windows[j].i /\ windows[j].i < emitted[k + 1].i

\* C13 as stated: for any text and any parameters with
\* 0 <= overlap < max_chunk_size, every two successive chunks returned,
\* except possibly the pair ending in the last chunk, share overlap tokens.
C13_SuccessiveOverlap ==
  (ChunkReturned /\ ValidChunking) =>
    \A k \in 1..(Len(Chunks) - 2) : SharesOverlap(k)

\* C13 as amended: for any text and any parameters with
\* 0 <= overlap < max_chunk_size, two successive chunks returned share
\* overlap tokens whenever no window was discarded between them and the
\* later chunk has at least overlap tokens.
C13_AdjacentWindowsOverlap ==
  (ChunkReturned /\ ValidChunking) =>
    \A k \in 1..(Len(Chunks) - 1) :
      (NoWindowBetween(k) /\ Len(ChunkTokens(k + 1)) >= overlap) => SharesOverlap(k)

C13_Witness ==
  /\ ChunkReturned /\ ValidChunking /\ overlap = 2 /\ Len(Chunks) >= 3
  /\ \E k \in 1..(Len(Chunks) - 1) :
       /\ NoWindowBetween(k) /\ Len(ChunkTokens(k + 1)) >= overlap
       /\ ChunkTokens(k)[1] # ChunkTokens(k)[2]
  /\ \E k \in 1..(Len(Chunks) - 1) : ~NoWindowBetween(k)

\* the call of chunk_text is over: it returned or it raised
ChunkCallOver == chunks # None \/ chunk_raised # None

\* C14: a call of chunk_text whose parameters violate
\* 0 <= overlap < max_chunk_size (overlap equal to max_chunk_size, above it,
\* or negative) ends by raising an error and returns no chunk sequence.
C14_InvalidParametersRaise ==
  (ChunkCallOver /\ ~ValidChunking) => (chunk_raised # None /\ chunks = None)

\* the trimmed texts of the windows of at least MinChunkChars characters
LongEnoughWindows ==
  LET windows == SelectSeq(ChunkWindows(Split(text), max_chunk_size, overlap),
                           LAMBDA w : CharLen(Strip(w.chunk)) >= MinChunkChars)
  IN [k \in 1..Len(windows) |-> Strip(windows[k].chunk)]

\* C15: chunk_text discards a window exactly when its joined, trimmed text
\* is shorter than 100 characters: the chunks returned are the windows of
\* 100 characters or more, a window of 99 characters is dropped and one of
\* exactly 100 characters is returned.
C15_DiscardBelowMinimum ==
  (ChunkReturned /\ ValidChunking) => Chunks = LongEnoughWindows

\* the passages process_all_documents has collected: the k-th of the a-th
\* file processed
Passages ==
  UNION {{<<a, k>> : k \in 1..Len(processed[a].chunks)} : a \in 1..Len(processed)}
Passage(x) == processed[x[1]].chunks[x[2]]

\* C16: over any set of distinct .html files of the documents directory no
\* two passages process_all_documents produces have the same id: passages
\* with the same id come from the same file and have the same source_file
\* and chunk_index, that is, they are the same passage.
C16_PassageIdsUnique ==
  /\ \A x, y \in Passages :
       Passage(x).id = Passage(y).id =>
         /\ x = y
         /\ Passage(x).source_file = Passage(y).source_file
         /\ Passage(x).chunk_index = Passage(y).chunk_index
  /\ \A i, j \in 1..Len(all_chunks) : all_chunks[i].id = all_chunks[j].id => i = j

\* the file process_all_documents processed last (every file is, in the
\* state its turn of the loop leads to), its cleaned text and its passages
FileProcessed == processed # <<>>
LastFile == processed[Len(processed)]
LastRead == docs_dir[1][LastFile.filename]
LastWords == Split(LastRead.clean_text)

\* C17: the passage with chunk_index i of a document has as content the
\* tokens of the document's cleaned text from position
\* i * (max_chunk_size - overlap) on, a window of max_chunk_size tokens; a
\* document of ScenarioTokens tokens chunked with 500/50 gives exactly the
\* passages 0, 1 and 2, and passage 1 starts at token 450.
C17_ChunkIndexLocatesWindow ==
  (FileProcessed /\ LastRead.exc = None) =>
    /\ \A k \in 1..Len(LastFile.chunks) :
         /\ LastFile.chunks[k].chunk_index = k - 1
         /\ Split(LastFile.chunks[k].content)
              = Slice(LastWords, (k - 1) * (DefaultChunkSize - DefaultOverlap),
                      (k - 1) * (DefaultChunkSize - DefaultOverlap) + DefaultChunkSize)
    /\ Len(LastWords) = ScenarioTokens =>
         /\ Len(LastFile.chunks) = 3
         /\ Split(LastFile.chunks[2].content)[1]
              = LastWords[(DefaultChunkSize - DefaultOverlap) + 1]

C17_Witness ==
  /\ FileProcessed /\ LastRead.exc = None /\ LastFile.filename = F_INTRO
  /\ Len(LastWords) = ScenarioTokens
  /\ [k \in 1..Len(LastFile.chunks) |-> LastFile.chunks[k].id]
       = <<"intro_chunk_0", "intro_chunk_1", "intro_chunk_2">>
  /\ Split(LastFile.chunks[2].content)[1] = <<"w450">>

\* C18: chunk_text returns the empty list for an empty or whitespace-only
\* text and for any text shorter than the minimum chunk length, and
\* process_document returns no passage for a document whose cleaned text is
\* shorter than its minimum length.
C18_DegenerateInputsGiveNothing ==
  /\ (ChunkReturned /\ (Blank(text) \/ CharLen(text) < MinChunkChars)) => Chunks = <<>>
  /\ (FileProcessed /\ LastRead.exc = None
        /\ CharLen(LastRead.clean_text) < MinDocumentChars) => LastFile.chunks = <<>>

C18_Witness ==
  /\ ChunkReturned /\ ValidChunking /\ ~Blank(text)
  /\ CharLen(text) = MinChunkChars - 1 /\ Len(Split(text)) = 2
  /\ Chunks = <<>>

\* upload_documents has posted a batch / the batch / the chunks it loaded
BatchPosted == documents # None
Batch == documents[1]
LoadedChunks == chunks_file[1]

\* C19: every passage upload_documents submits has an embedding of exactly
\* EmbeddingDim dimensions, and the passages of the file without an
\* embedding or with an embedding of another length (also an empty one)
\* are not in the batch.
C19_BatchHasIndexDimension ==
  BatchPosted =>
    /\ \A k \in 1..Len(Batch) : Len(Batch[k].embedding) = EmbeddingDim
    /\ \A j \in 1..Len(LoadedChunks) :
         ("embedding" \notin DOMAIN LoadedChunks[j]
            \/ Len(LoadedChunks[j].embedding) # EmbeddingDim)
         => \A k \in 1..Len(Batch) : Batch[k].id # LoadedChunks[j].id

\* the lines azure_search_indexer.py has printed
IndexerPrinted == {idx_printed[k] : k \in 1..Len(idx_printed)}

\* C20: when the index answers a batch with per-document results,
\* upload_documents reports the number of results with a successful status
\* next to the number of documents submitted, and an upload in which fewer
\* documents were accepted than submitted is not reported as a success.
C20_PartialAcceptanceReported ==
  ( /\ upload_returned # None /\ upload_http[1].exc = None
    /\ upload_http[1].status_code = 200 /\ "value" \in DOMAIN upload_http[1].json )
  => /\ <<"Successfully uploaded ", ToString(SuccessfulUploads(upload_http[1].json.value)),
          "/", ToString(Len(Batch)), " documents">> \in IndexerPrinted
     /\ SuccessfulUploads(upload_http[1].json.value) < Len(Batch) =>
          /\ upload_returned[1] = FALSE
          /\ <<"Indexing complete! Your RAG knowledge base is ready.">> \notin IndexerPrinted

\* how many provider calls of request s are calls of op
CallCount(s, op) == Cardinality({i \in 1..Len(calls[s]) : calls[s][i].op = op})

\* the i-th provider call of request s failed
CallFailed(s, i) ==
  \/ calls[s][i].out.exc # None
  \/ calls[s][i].op = "docs/search" /\ calls[s][i].out.status_code # 200
  \/ calls[s][i].op = "chat.completions.create" /\ calls[s][i].out.content = None

\* C21: within one /ask or /chat request the embedding provider, the vector
\* search and the generation provider are each invoked at most once, whether
\* the call succeeded or failed: a failed call is the last call of its
\* request, which is over.
C21_NoRetry ==
  \A s \in Slots :
    endpoint[s] \in Handlers =>
      /\ \A k \in 1..Len(StageOps) : CallCount(s, StageOps[k]) <= 1
      /\ \A i \in 1..Len(calls[s]) :
           CallFailed(s, i) => i = Len(calls[s]) /\ Done(s)

C21_Witness ==
  \E s \in Slots :
    /\ endpoint[s] = "chat" /\ Done(s)
    /\ Len(calls[s]) = 1 /\ CallFailed(s, 1)
    /\ CallCount(s, "embeddings.create") = 1

\* the state of request s
Slot(s) ==
  <<pc[s], endpoint[s], request[s], question[s], question_embedding[s], search_results[s],
    answer[s], response[s], calls[s], printed[s], raised[s]>>

\* what a request to entry point ep with this body gives when it runs alone
\* (ask_question, lines 134-185; chat_endpoint, lines 20-36 and 254-338), the
\* providers answering its calls with outs, in order, and t being the time
\* chat_endpoint measures; Unanswered when it makes a call outs has no
\* response for
Unanswered == [unanswered |-> TRUE]

AloneOutcome(ep, body, outs, t) ==
  LET parsed == IF ep = "ask" THEN QueryRequest(body) ELSE ChatRequest(body)
      q == IF ep = "ask" THEN Strip(parsed.question) ELSE parsed.question
      embedded == get_embedding(outs[1]).ret
      found == vector_search(outs[2]).ret
      refused == LookupError(found[1], <<"source_file", "chunk_index", "content">>)
      rag == generate_rag_response(q, found[1], outs[3])
      bad == PreviewError(found[1])
  IN IF ep = "chat" /\ parsed.errors # <<>> THEN HTTPException(422, parsed.errors)
     ELSE IF ep = "ask" /\ q = <<>> THEN HTTPException(400, <<"Question cannot be empty">>)
     ELSE IF Len(outs) < 1 THEN Unanswered
     ELSE IF embedded = None
     THEN IF ep = "ask"
          THEN HTTPException(500, <<"Failed to generate question embedding">>)
          ELSE HTTPException(503, <<"AI service temporarily unavailable. Please try again.">>)
     ELSE IF Len(outs) < 2 THEN Unanswered
     ELSE IF found = None
     THEN IF ep = "ask"
          THEN HTTPException(500, <<"Search operation failed">>)
          ELSE HTTPException(503,
                 <<"Search service temporarily unavailable. Please try again.">>)
     ELSE IF refused # None
     THEN IF ep = "ask" THEN ask_question_except(refused[1])
          ELSE chat_endpoint_except(refused[1])
     ELSE IF Len(outs) < 3 THEN Unanswered
     ELSE IF rag.ret = None
     THEN IF ep = "ask"
          THEN HTTPException(500, <<"Failed to generate response">>)
          ELSE HTTPException(503, <<"AI response generation failed. Please try again.">>)
     ELSE IF bad # None
     THEN IF ep = "ask" THEN ask_question_except(bad[1]) ELSE chat_endpoint_except(bad[1])
     ELSE IF ep = "ask" THEN AskResponse(q, rag.ret[1], found[1])
     ELSE ChatResponse(q, rag.ret[1], found[1], t)

\* the provider responses request s got, in order
ProviderResponses(s) == [i \in 1..Len(calls[s]) |-> calls[s][i].out]

\* the time in the outcome of request s, when it has one
MeasuredTime(s) ==
  IF "response_time_ms" \in DOMAIN response[s][1] THEN response[s][1].response_time_ms ELSE 0

\* C22: with two /ask or /chat requests in flight and their steps
\* interleaved in any order, every step leaves the module-level
\* openai_service and search_service as they are and changes the state of
\* one request only, and the outcome of every finished request is the one
\* it has when it runs alone and gets the same provider responses.
C22_RequestsIndependent ==
  /\ [](\A s \in Slots :
          (endpoint[s] \in Handlers /\ Done(s)) =>
            response[s][1] = AloneOutcome(endpoint[s], request[s], ProviderResponses(s),
                                          MeasuredTime(s)))
  /\ [][ /\ serviceVars' = serviceVars
         /\ \E s \in Slots : \A t \in Slots \ {s} : Slot(t)' = Slot(t) ]_vars

C22_Witness ==
  \E s, t \in Slots :
    /\ endpoint[s] = "ask" /\ Done(s) /\ HasAnswer(response[s][1])
    /\ endpoint[t] \in Handlers /\ pc[t] = "generate"
    /\ question[t] # question[s]
    /\ search_results[t] # search_results[s]

\* the chunks process_chunks_with_embeddings works on: those of the input
\* file, at most MaxEmbedChunks of them
BatchSize == Len(Truncate(input_file[1], MaxEmbedChunks))

\* the loop of process_chunks_with_embeddings is over
BatchOver == emb_pc \in {"returned", "saved"}

\* C23: process_chunks_with_embeddings makes one embedding call per chunk,
\* in chunk order, and pauses once between two consecutive calls: when the
\* call for chunk k is made k - 1 calls and k - 1 pauses have been made,
\* and at the end of a batch of n chunks there are n calls and n - 1 pauses
\* (none for an empty batch), whether the calls succeeded or failed.
C23_BatchPaced ==
  /\ \A k \in 1..Len(emb_calls) : emb_calls[k].input = emb_chunks[k].content
  /\ \A k \in 1..Len(emb_slept) : emb_slept[k] = SleepSeconds
  /\ emb_pc = "embed" => Len(emb_calls) = emb_i /\ Len(emb_slept) = emb_i
  /\ emb_pc = "sleep" =>
       /\ Len(emb_calls) = emb_i + 1 /\ Len(emb_slept) = emb_i
       /\ Len(emb_calls) < BatchSize
  /\ BatchOver =>
       /\ Len(emb_calls) = BatchSize
       /\ Len(emb_slept) = (IF BatchSize = 0 THEN 0 ELSE BatchSize - 1)

C23_Witness ==
  /\ BatchOver /\ BatchSize = MaxChunks
  /\ Len(emb_calls) = MaxChunks /\ Len(emb_slept) = MaxChunks - 1
  /\ emb_calls[1].out.exc # None
  /\ emb_calls[MaxChunks].out.exc = None

\* the fields a passage has when it is loaded
PassageFields == {"id", "source_file", "chunk_index", "content", "content_length"}

\* passage k of the batch as it was loaded
Loaded(k) == input_file[1][k]

\* the call for passage k gave an embedding: the test of line 60 holds
Embedded(k) == Truthy(generate_embedding(emb_calls[k].out).ret)

\* C24: during batch embedding a passage changes at most once, when its
\* call is made, and only by getting the field embedding: after a call that
\* gave an embedding the passage has that embedding, after a failed call
\* (an exception, or nothing the code takes as an embedding) it has no
\* field embedding, its five loaded fields are as loaded in both cases, a
\* passage whose call is still to come is as loaded, a failed call does not
\* end the batch, and the passages are saved as the loop left them.
C24_EmbeddingOnlyAttached ==
  /\ [](emb_pc \in {"embed", "sleep", "returned", "saved"} =>
          /\ Len(emb_chunks) = BatchSize
          /\ \A k \in 1..Len(emb_chunks) :
               /\ DOMAIN emb_chunks[k] \ {"embedding"} = PassageFields
               /\ \A f \in PassageFields : emb_chunks[k][f] = Loaded(k)[f]
               /\ k > Len(emb_calls) => emb_chunks[k] = Loaded(k)
               /\ (k <= Len(emb_calls) /\ Embedded(k)) =>
                    /\ "embedding" \in DOMAIN emb_chunks[k]
                    /\ emb_chunks[k].embedding = emb_calls[k].out.data
               /\ (k <= Len(emb_calls) /\ ~Embedded(k)) =>
                    "embedding" \notin DOMAIN emb_chunks[k]
          /\ BatchOver => Len(emb_calls) = Len(emb_chunks)
          /\ emb_pc = "saved" => chunks_file = Some(emb_chunks))
  /\ [][\A k \in 1..Len(emb_calls) :
          k <= Len(emb_chunks) => emb_chunks'[k] = emb_chunks[k]]_vars

C24_Witness ==
  /\ emb_pc = "saved" /\ Len(emb_calls) = MaxChunks
  /\ emb_calls[1].out.exc # None /\ "embedding" \notin DOMAIN chunks_file[1][1]
  /\ Embedded(MaxChunks) /\ "embedding" \in DOMAIN chunks_file[1][MaxChunks]
  /\ chunks_file[1][MaxChunks].id = Loaded(MaxChunks).id

====
